---- MODULE Spec2Model ----
(***************************************************************************)
(* A model of one dfs3 node: the signed-event ingestion pipeline           *)
(* (mqtt/listener.py, core/event_handler.py), the file metadata / entry    *)
(* model (core/files.py), the registries (core/nodes.py, core/users.py),   *)
(* the event index (core/events.py) and the ciphertext store with upload,  *)
(* clone, download and proxy-while-store (api/routes/files.py).            *)
(*                                                                         *)
(* The ledger, the bus and the peers are the environment.  The ledger is   *)
(* a sequence of envelopes (the peers' blocks, then the blocks this node   *)
(* published); the block id of an envelope is its position.                *)
(***************************************************************************)
EXTENDS Integers, Sequences, FiniteSets, TLC

VARIABLES
    nodes,      \* node registry (table nodes): node_id -> row
    users,      \* user registry (table users): user_id -> row
    meta,       \* .meta/<file_id>.json: file_id -> document
    entries,    \* .users/<user_id>/<filename>: user_id -> [filename -> file_id]
    blobs,      \* .storage/<file_id>.dat: file_id -> content
    events,     \* event index (table events): rows keyed by block_id
    emitted,    \* the envelopes this node has published on the ledger
    announced,  \* the block ids the bus delivers to this node
    xfer,       \* the proxy-while-store transfers in flight
    resp,       \* outcome of the last operation (HTTP answer or log line)
    steps,      \* number of operations performed so far
    auth,       \* core/auth.py: the two TTL caches, the clock, the values drawn
    file_id_cache,  \* core/files.py _file_id_cache: (user_id, filename) -> file_id
    listener,   \* the bus thread (loop_start): where it stands in on_message
    caches      \* _node_cache (core/nodes.py) and _metadata_cache (core/files.py)

vars == <<nodes, users, meta, entries, blobs, events, emitted, announced, xfer, resp, steps,
          auth, file_id_cache, listener, caches>>

\* ---------------------------------------------------------------- bounds
MaxSteps == 5
MaxLocal == 2

\* how far the clock of the login caches runs
MaxClock == 2

\* core/auth.py: TTLCache(maxsize=10, ttl=300) and TTLCache(maxsize=10,
\* ttl=1800), scaled to the clock of the model
CACHE_MAXSIZE == 2

CHALLENGE_TTL == 1

SESSION_TTL == 2

\* what cache.get returns for a key it does not hold
NoValue == 0

\* ------------------------------------------------------- program constants
\* Sizes are counted in chunks; the proportions of the source are kept
\* (EC_MIN_SIZE < MAX_FILE_SIZE).
MAX_FILE_SIZE == 2
EC_MIN_SIZE == 2

\* None, where the source returns it for a key, a file id or key material
NoKey == 0
NoFileId == 0 - 1
NoCrypto == <<>>
NoAnswer == <<>>

\* ------------------------------------------------------------ identities
\* Ed25519 key pairs are numbered; the private half of public key k signs
\* as k.  SHA256 of a public key is modelled by an injective map into ids.
Keys == 1 .. 5

\* hashlib.sha256(public_key_bytes).hexdigest()
IdOfKey(k) == 10 + k

SELF == IdOfKey(1)      \* this node
N2 == IdOfKey(2)        \* a peer
N3 == IdOfKey(3)        \* another peer, registering late
U1 == IdOfKey(4)        \* user alice
U2 == IdOfKey(5)        \* user bob

NodeIds == {SELF, N2, N3}
UserIds == {U1, U2}

\* ------------------------------------------------------------- ciphertext
\* A ciphertext is a non-empty sequence of chunks; a partially written blob
\* is a prefix of one.
Chunks == {1, 2}
Contents == {<<1>>, <<1, 2>>, <<2, 1>>}

RECURSIVE Sha256(_)
\* hashlib.sha256(contents).hexdigest(): injective on chunk sequences
Sha256(c) == IF c = <<>> THEN 0 ELSE 3 * Sha256(SubSeq(c, 1, Len(c) - 1)) + c[Len(c)]

F1 == Sha256(<<1, 2>>)
F2 == Sha256(<<2, 1>>)
F0 == Sha256(<<1>>)
FileIds == {F0, F1, F2}

\* ---------------------------------------------------------------- filenames
\* A filename is stem + extension, as os.path.splitext splits it; the stem
\* is a base followed by the " (N)" suffixes it carries.
Filename(base, sfx) == [base |-> base, sfx |-> sfx, ext |-> ".pdf"]

A_PDF == Filename("a", <<>>)
\* a name RE_FILENAME admits (at most 255 characters) whose UTF-8 encoding
\* is longer than the 255 bytes a directory entry may have
LONG_PDF == Filename("long", <<>>)

\* whether stat() of the name succeeds or fails with ENOENT; ENAMETOOLONG
\* is raised by Path.exists
within_name_max(filename) == filename.base # "long"

A1_PDF == Filename("a", <<1>>)
B_PDF == Filename("b", <<>>)

\* -------------------------------------------------------------- sequences
Range(s) == {s[i] : i \in 1 .. Len(s)}

\* position of the first element of s satisfying user_id = u, 0 if none
RECURSIVE FirstIndex(_, _, _)
FirstIndex(s, u, i) ==
    IF i > Len(s) THEN 0
    ELSE IF s[i].user_id = u THEN i
    ELSE FirstIndex(s, u, i + 1)

UserIdsOf(s) == {s[i].user_id : i \in 1 .. Len(s)}

NoDuplicates(s) == \A i, j \in 1 .. Len(s) : s[i].user_id = s[j].user_id => i = j

\* ------------------------------------------------------------- signatures
\* the signed content without the payload
Content_without_payload(e) ==
    [event_type |-> e.event_type, timestamp |-> e.timestamp, node_id |-> e.node_id]

\* The content a signature covers: the canonical JSON of the envelope
\* without its signature field.
Content(e) ==
    [event_type |-> e.event_type, timestamp |-> e.timestamp,
     node_id |-> e.node_id, payload |-> e.payload]

\* signing_key.sign(event_bytes): an Ed25519 signature names the key that
\* made it and the bytes it was made over
sign_event(event, private_key) == [key |-> private_key, over |-> Content(event)]

\* A timestamp on the wire is a text.  A number t below 100 stands for the
\* text that datetime.isoformat() gives for the instant t, Zulu(t) for
\* another text of the same instant (suffix Z for +00:00).
\* BaseEvent.parse_raw turns either into the instant, and event.json()
\* writes an instant back as its isoformat text.
Zulu(t) == 100 + t

parse_timestamp(text) == text % 100

\* iota/client.py fetch_event: BaseEvent.parse_raw(json_text), read back
\* with event.json() by verify_signature
parse_raw(json) == [json EXCEPT !.timestamp = parse_timestamp(@)]

\* VerifyKey(public_key).verify(content, signature)
Verify(public_key, content, signature) ==
    /\ public_key # NoKey
    /\ signature.key = public_key
    /\ signature.over = content

\* An envelope of the given type, signed by key k.
Envelope(t, ts, n, p, k) ==
    LET unsigned == [event_type |-> t, timestamp |-> ts, node_id |-> n, payload |-> p]
    IN  [event_type |-> t, timestamp |-> ts, node_id |-> n, payload |-> p,
         signature |-> sign_event(unsigned, k)]

\* An authorized_users entry: the file key wrapped for user u, wrapping v.
Au(u, v) == [user_id |-> u, encrypted_key |-> 10 * u + v, iv |-> 1000 + 10 * u + v]

FilePayload(u, f, name) == [user_id |-> u, file_id |-> f, filename |-> name]

CreatedPayload(u, f, name, size, au) ==
    [user_id |-> u, file_id |-> f, filename |-> name, size |-> size,
     authorized_users |-> au, version |-> 1]

SharedPayload(u, f, name, au) ==
    [user_id |-> u, file_id |-> f, filename |-> name, authorized_users |-> au]

RenamedPayload(u, f, name, new) ==
    [user_id |-> u, file_id |-> f, filename |-> name, new_name |-> new]

\* ------------------------------------------------------- the peers' events
\* What the peers have published on the ledger.  Every envelope is signed
\* by its emitter's key unless said otherwise.
PeerBlocks == <<
    Envelope("node_registered", 1, N2, [public_key |-> 2, addr |-> 1], 2),
    Envelope("user_registered", 1, N2, [user_id |-> U1, public_key |-> 4], 2),
    Envelope("file_created", 2, N2, CreatedPayload(U1, F1, A_PDF, 1, <<Au(U1, 1)>>), 2),
    \* owner U1 is not among the authorized users
    Envelope("file_created", 2, N2, CreatedPayload(U1, F2, A_PDF, 2, <<Au(U2, 1)>>), 2),
    Envelope("file_shared", 3, N2, SharedPayload(U1, F1, A_PDF, <<Au(U2, 1)>>), 2),
    \* re-share: new wrapping for U2, and U1 (already authorized) listed again
    Envelope("file_shared", 3, N2, SharedPayload(U1, F1, A_PDF, <<Au(U2, 2), Au(U1, 2)>>), 2),
    Envelope("file_renamed", 4, N2, RenamedPayload(U1, F1, A_PDF, B_PDF), 2),
    Envelope("file_deleted", 4, N2, FilePayload(U1, F1, A_PDF), 2),
    \* emitted by N3, which registers only with the next block
    Envelope("file_replicated", 5, N3, [file_id |-> F1], 3),
    Envelope("node_registered", 5, N3, [public_key |-> 3, addr |-> 1], 3),
    \* payload changed after signing
    [Envelope("file_created", 2, N2, CreatedPayload(U1, F1, A_PDF, 1, <<Au(U1, 1)>>), 2)
        EXCEPT !.payload = CreatedPayload(U2, F1, A_PDF, 1, <<Au(U2, 1)>>)],
    Envelope("node_status", 6, N2, [addr |-> 2], 2),
    Envelope("user_joined_node", 6, N2, [user_id |-> U1], 2),
    Envelope("file_accessed", 6, N2, FilePayload(U1, F1, A_PDF), 2),
    \* a valid event type without a handler
    Envelope("file_copied", 6, N2, [file_id |-> F1], 2),
    \* duplicate user_id in authorized_users: rejected by the event model
    Envelope("file_created", 2, N2, CreatedPayload(U1, F1, B_PDF, 1, <<Au(U1, 1), Au(U1, 2)>>), 2)
>>

\* --------------------------------------------------------- node registry
\* core/nodes.py get_public_key: the key of a registered node, else None
get_public_key_node(nodes_, node_id) ==
    IF node_id \in DOMAIN nodes_
    THEN nodes_[node_id].public_key
    ELSE NoKey

\* core/nodes.py save: INSERT ... ON CONFLICT(node_id) DO UPDATE SET every field
save_node(nodes_, e) ==
    [n \in DOMAIN nodes_ \cup {e.node_id} |->
        IF n = e.node_id
        THEN [public_key |-> e.payload.public_key, addr |-> e.payload.addr,
              creation_date |-> e.timestamp, last_seen |-> e.timestamp]
        ELSE nodes_[n]]

\* core/nodes.py update: UPDATE nodes SET ip, port, uptime, total_space, last_seen
update_node(nodes_, e) ==
    IF e.node_id \notin DOMAIN nodes_ THEN nodes_
    ELSE [nodes_ EXCEPT ![e.node_id].addr = e.payload.addr,
                        ![e.node_id].last_seen = e.timestamp]

\* core/nodes.py should_clone_from: any node but the source clones
should_clone_from(source_node_id, size) == SELF # source_node_id

\* --------------------------------------------------------- user registry
\* core/users.py register: a plain INSERT, which fails on an existing user_id
register_user(users_, e) ==
    IF e.payload.user_id \in DOMAIN users_ THEN users_
    ELSE users_ @@ (e.payload.user_id :>
            [public_key |-> e.payload.public_key,
             creation_date |-> e.timestamp, last_seen |-> e.timestamp])

\* core/users.py update: UPDATE users SET last_seen
update_user(users_, e) ==
    IF e.payload.user_id \notin DOMAIN users_ THEN users_
    ELSE [users_ EXCEPT ![e.payload.user_id].last_seen = e.timestamp]

\* core/users.py get_public_key
get_public_key_user(users_, user_id) ==
    IF user_id \notin DOMAIN users_ THEN NoKey ELSE users_[user_id].public_key

\* ------------------------------------------------------ metadata and entries
RECURSIVE next_candidate_late(_, _, _)
\* the while loop with the counter incremented before the name is formatted:
\* the first numbered candidate is "name (2).ext"
next_candidate_late(dir, desired, counter) ==
    LET candidate == [desired EXCEPT !.sfx = Append(desired.sfx, counter + 1)]
    IN  IF candidate \in DOMAIN dir
        THEN next_candidate_late(dir, desired, counter + 1)
        ELSE candidate

RECURSIVE next_candidate(_, _, _)
\* the while loop of get_available_filename_path: f"{name} ({counter}){ext}"
next_candidate(dir, desired, counter) ==
    LET candidate == [desired EXCEPT !.sfx = Append(desired.sfx, counter)]
    IN  IF candidate \in DOMAIN dir
        THEN next_candidate(dir, desired, counter + 1)
        ELSE candidate

\* core/files.py get_available_filename_path, dir being the user's directory
get_available_filename_path(dir, desired_name) ==
    IF desired_name \in DOMAIN dir
    THEN next_candidate(dir, desired_name, 1)
    ELSE desired_name

\* entry_path.hardlink_to(meta_path): a new name for the document of file_id
hardlink_to(dir, entry_path, file_id) == dir @@ (entry_path :> file_id)

\* file.unlink()
unlink(dir, entry_path) == [n \in (DOMAIN dir) \ {entry_path} |-> dir[n]]

\* get_user_crypto that takes the first authorized_users entry without
\* comparing its user_id
get_user_crypto_first(meta_, user_id, file_id) ==
    LET au == meta_[file_id].authorized_users
    IN  IF au = <<>> THEN NoCrypto ELSE <<au[1].encrypted_key, au[1].iv>>

\* core/files.py get_user_crypto: the first authorized_users entry of user_id
get_user_crypto(meta_, user_id, file_id) ==
    LET au == meta_[file_id].authorized_users
        i == FirstIndex(au, user_id, 1)
    IN  IF i = 0 THEN NoCrypto ELSE <<au[i].encrypted_key, au[i].iv>>

\* core/files.py user_has_access
user_has_access(meta_, user_id, file_id) == get_user_crypto(meta_, user_id, file_id) # NoCrypto

\* the dict merge of share: an existing user_id keeps its place and takes the
\* new value, a new user_id is appended
merge_user(au, user) ==
    LET i == FirstIndex(au, user.user_id, 1)
    IN  IF i = 0 THEN Append(au, user) ELSE [au EXCEPT ![i] = user]

\* ------------------------------------------------------------ publishing
\* The typed event model applied to a payload before it is serialised for
\* the ledger: FileCreatedEventPayload declares version with default 1.
typed_payload(event_type, payload) ==
    IF event_type = "file_created" /\ "version" \notin DOMAIN payload
    THEN payload @@ ("version" :> 1)
    ELSE payload

\* core/events.py build_base_event followed by the typed constructor of
\* send_*_event: signed over the payload as given, published as typed.
build_event(event_type, payload, ts) ==
    LET event_dict == [event_type |-> event_type, timestamp |-> ts,
                       node_id |-> SELF, payload |-> payload]
    IN  [event_type |-> event_type, timestamp |-> ts, node_id |-> SELF,
         payload |-> typed_payload(event_type, payload),
         signature |-> sign_event(event_dict, 1)]

\* core/events.py publish_event: the ledger accepts the block (ok) or the
\* call raises and None is returned.
publish_event(S, event, ok) ==
    IF ok THEN [S EXCEPT !.emitted = Append(S.emitted, event)] ELSE S

\* ------------------------------------------------------------ core/files.py
\* save_metadata: (over)writes the document of file_id in place
save_metadata(S, file_id, metadata) ==
    [S EXCEPT !.meta = [f \in DOMAIN S.meta \cup {file_id} |->
                           IF f = file_id THEN metadata ELSE S.meta[f]]]

\* file_path.open("wb") and f.write(contents)
write_blob(S, file_id, contents) ==
    [S EXCEPT !.blobs = [f \in DOMAIN S.blobs \cup {file_id} |->
                            IF f = file_id THEN contents ELSE S.blobs[f]]]

\* the directory of user_id; get_user_dir creates it when missing
get_user_dir(S, user_id) ==
    IF user_id \in DOMAIN S.entries THEN S.entries[user_id] ELSE <<>>

\* the directory of user_id replaced by dir
put_user_dir(S, user_id, dir) ==
    [S EXCEPT !.entries = [u \in DOMAIN S.entries \cup {user_id} |->
                              IF u = user_id THEN dir ELSE S.entries[u]]]

\* clone without the integrity control
clone_no_integrity(S, node_id, file_id, r, pub, ts) ==
    IF node_id \notin DOMAIN S.nodes THEN S
    ELSE IF r = NoAnswer THEN S
    ELSE IF Len(r) > MAX_FILE_SIZE THEN S
    ELSE publish_event(write_blob(S, file_id, r),
                       build_event("file_replicated", [file_id |-> file_id], ts), pub)

\* clone: fetch the blob of file_id from node_id; r is the peer's answer
\* (NoAnswer for no answer or a status other than 200, else the body) and
\* pub tells whether the file_replicated event could be published.
clone(S, node_id, file_id, r, pub, ts) ==
    IF node_id \notin DOMAIN S.nodes THEN S
    ELSE IF r = NoAnswer THEN S
    ELSE IF Len(r) > MAX_FILE_SIZE THEN S
    ELSE IF file_id # Sha256(r) THEN S
    ELSE publish_event(write_blob(S, file_id, r),
                       build_event("file_replicated", [file_id |-> file_id], ts), pub)

\* create: metadata document, owner entry, then the opportunistic clone.
\* candidate.exists() in get_available_filename_path raises OSError for a
\* name the filesystem refuses; the except branch of create calls ABR.
create(S, e, r, pub, ts) ==
    LET p == e.payload
        metadata == [file_id |-> p.file_id, owner |-> p.user_id, size |-> p.size,
                     authorized_users |-> p.authorized_users,
                     replica_nodes |-> <<e.node_id>>,
                     creation_date |-> e.timestamp]
        S1 == save_metadata(S, p.file_id, metadata)
        dir == get_user_dir(S1, p.user_id)
        entry_path == get_available_filename_path(dir, p.filename)
        S2 == put_user_dir(S1, p.user_id, hardlink_to(dir, entry_path, p.file_id))
    IN  IF ~within_name_max(p.filename) THEN [S1 EXCEPT !.log = "aborted"]
        ELSE IF p.size < EC_MIN_SIZE /\ should_clone_from(e.node_id, p.size)
        THEN clone(S2, e.node_id, p.file_id, r, pub, ts)
        ELSE S2

RECURSIVE share_loop(_, _, _, _, _)
\* the for loop of share over payload.authorized_users
share_loop(S, au, users_, filename, file_id) ==
    IF users_ = <<>> THEN [S EXCEPT !.meta[file_id].authorized_users = au]
    ELSE LET user == Head(users_)
             dir == get_user_dir(S, user.user_id)
             entry_path == get_available_filename_path(dir, filename)
             S1 == put_user_dir(S, user.user_id, hardlink_to(dir, entry_path, file_id))
         IN  share_loop(S1, merge_user(au, user), Tail(users_), filename, file_id)

\* share: merge authorized_users and link an entry for each listed user
share(S, e) ==
    LET p == e.payload
    IN  IF p.file_id \notin DOMAIN S.meta THEN [S EXCEPT !.log = "failed"]
        ELSE IF p.authorized_users # <<>> /\ ~within_name_max(p.filename)
        THEN [S EXCEPT !.log = "failed"]
        ELSE share_loop(S, S.meta[p.file_id].authorized_users,
                        p.authorized_users, p.filename, p.file_id)

\* rename: move the entry filename of user_id to an available new_name
rename(S, e) ==
    LET p == e.payload
        dir == get_user_dir(S, p.user_id)
    IN  IF p.filename \notin DOMAIN dir THEN [S EXCEPT !.log = "failed"]
        ELSE IF ~within_name_max(p.new_name) THEN [S EXCEPT !.log = "failed"]
        ELSE LET target == get_available_filename_path(dir, p.new_name)
             IN  put_user_dir(S, p.user_id,
                     hardlink_to(unlink(dir, p.filename), target, dir[p.filename]))

\* delete that unlinks every entry of the file, whoever holds it
delete_all_links(S, e) ==
    LET p == e.payload
        dir == get_user_dir(S, p.user_id)
    IN  IF p.filename \notin DOMAIN dir THEN [S EXCEPT !.log = "failed"]
        ELSE [S EXCEPT !.entries =
                 [u \in DOMAIN S.entries |->
                     [n \in {m \in DOMAIN S.entries[u] : S.entries[u][m] # dir[p.filename]}
                         |-> S.entries[u][n]]]]

\* delete: unlink the entry filename of user_id
delete(S, e) ==
    LET p == e.payload
        dir == get_user_dir(S, p.user_id)
    IN  IF p.filename \notin DOMAIN dir THEN [S EXCEPT !.log = "failed"]
        ELSE put_user_dir(S, p.user_id, unlink(dir, p.filename))

\* replicate: add the emitter to replica_nodes
replicate(S, e) ==
    LET f == e.payload.file_id
    IN  IF f \notin DOMAIN S.meta THEN [S EXCEPT !.log = "failed"]
        ELSE IF e.node_id \in Range(S.meta[f].replica_nodes) THEN S
        ELSE [S EXCEPT !.meta[f].replica_nodes = Append(@, e.node_id)]

\* verify_signature that looks the key up and never checks the signature
verify_signature_unchecked(e, nodes_) ==
    LET public_key == IF e.event_type = "node_registered"
                      THEN e.payload.public_key
                      ELSE get_public_key_node(nodes_, e.node_id)
    IN  public_key # NoKey

\* verify_signature without the early return for an emitter the registry
\* does not know
verify_signature_unknown_ok(e, nodes_) ==
    LET public_key == IF e.event_type = "node_registered"
                      THEN e.payload.public_key
                      ELSE get_public_key_node(nodes_, e.node_id)
    IN  \/ public_key = NoKey
        \/ Verify(public_key, Content(e), e.signature)

\* ---------------------------------------------------- core/event_handler.py
\* verify_signature: node_registered carries its own key, every other event
\* is checked under the key the registry holds for its emitter
verify_signature(e, nodes_) ==
    LET public_key == IF e.event_type = "node_registered"
                      THEN e.payload.public_key
                      ELSE get_public_key_node(nodes_, e.node_id)
    IN  /\ public_key # NoKey
        /\ Verify(public_key, Content(e), e.signature)

\* The typed event constructors of the handlers (models/events.py): a
\* payload they refuse raises out of process_event.
event_model_ok(e) ==
    IF e.event_type = "file_created"
    THEN /\ NoDuplicates(e.payload.authorized_users)
         /\ e.payload.size >= 1
         /\ e.payload.size <= MAX_FILE_SIZE
    ELSE TRUE

EVENT_HANDLERS ==
    {"node_registered", "node_status", "user_registered", "user_joined_node",
     "file_created", "file_shared", "file_accessed", "file_renamed",
     "file_deleted", "file_replicated"}

handle_node_registered(S, e) == [S EXCEPT !.nodes = save_node(S.nodes, e)]

handle_node_status(S, e) == [S EXCEPT !.nodes = update_node(S.nodes, e)]

handle_user_registered(S, e) ==
    IF e.payload.user_id \in DOMAIN S.users THEN [S EXCEPT !.log = "failed"]
    ELSE [S EXCEPT !.users = register_user(S.users, e)]

handle_user_joined_node(S, e) == [S EXCEPT !.users = update_user(S.users, e)]

handle_file_created(S, e, r, pub, ts) == create(S, e, r, pub, ts)

handle_file_shared(S, e) == share(S, e)

handle_file_accessed(S, e) == S

handle_file_renamed(S, e) == rename(S, e)

handle_file_deleted(S, e) == delete(S, e)

handle_file_replicated(S, e) == replicate(S, e)

\* the dispatch of process_event; S.log is "applied" on entry
dispatch(S, e, r, pub, ts) ==
    CASE e.event_type \notin EVENT_HANDLERS -> [S EXCEPT !.log = "skipped"]
      [] e.event_type = "node_registered" -> handle_node_registered(S, e)
      [] e.event_type = "node_status" -> handle_node_status(S, e)
      [] e.event_type = "user_registered" -> handle_user_registered(S, e)
      [] e.event_type = "user_joined_node" -> handle_user_joined_node(S, e)
      [] e.event_type = "file_created" -> handle_file_created(S, e, r, pub, ts)
      [] e.event_type = "file_shared" -> handle_file_shared(S, e)
      [] e.event_type = "file_accessed" -> handle_file_accessed(S, e)
      [] e.event_type = "file_renamed" -> handle_file_renamed(S, e)
      [] e.event_type = "file_deleted" -> handle_file_deleted(S, e)
      [] e.event_type = "file_replicated" -> handle_file_replicated(S, e)

\* The events table is created outside the source at hand; its primary key
\* on block_id is the schema of the design document: a row of that block_id
\* exists.
block_id_taken(events_, block_id) == \E row \in events_ : row.block_id = block_id

\* core/events.py save_event: INSERT INTO events; an insert that the table
\* refuses is logged and nothing is written
save_event(events_, block_id, e) ==
    IF block_id_taken(events_, block_id)
    THEN events_
    ELSE events_ \cup {[block_id |-> block_id, event_type |-> e.event_type,
                        timestamp |-> e.timestamp, node_id |-> e.node_id]}

\* process_event: verify, dispatch, save.  The result carries the new state
\* and, in log, how the event fared: "rejected" (signature), "raised" (an
\* exception left the handler), "failed" (the handler caught its own
\* exception), "skipped" (no handler), "aborted" (the handler called ABR:
\* SystemExit leaves process_event before save_event) or "applied".
process_event(S, events_, block_id, e, r, pub, ts) ==
    IF ~verify_signature(e, S.nodes)
    THEN [st |-> [S EXCEPT !.log = "rejected"], events |-> events_]
    ELSE IF ~event_model_ok(e)
    THEN [st |-> [S EXCEPT !.log = "raised"], events |-> events_]
    ELSE LET S1 == dispatch([S EXCEPT !.log = "applied"], e, r, pub, ts)
         IN  [st |-> S1,
              events |-> IF S1.log = "aborted" THEN events_
                         ELSE save_event(events_, block_id, e)]

\* ------------------------------------------------------ api/routes/files.py
\* UploadFileMetadata.parse_raw: the checks of the request model
upload_model_ok(m) ==
    /\ NoDuplicates(m.authorized_users)
    /\ m.size >= 0
    /\ m.size <= MAX_FILE_SIZE

\* api_upload_file for the authenticated user_id, multipart (contents, m);
\* pub tells whether the file_created event could be published
api_upload_file(S, user_id, contents, m, pub, ts) ==
    IF ~upload_model_ok(m) THEN [st |-> S, code |-> 400]
    ELSE IF Len(contents) > MAX_FILE_SIZE THEN [st |-> S, code |-> 413]
    ELSE IF m.file_id # Sha256(contents) THEN [st |-> S, code |-> 400]
    ELSE LET S1 == write_blob(S, m.file_id, contents)
             payload == [user_id |-> user_id, file_id |-> m.file_id,
                         filename |-> m.filename, size |-> m.size,
                         authorized_users |-> m.authorized_users]
         IN  [st |-> publish_event(S1, build_event("file_created", payload, ts), pub),
              code |-> IF pub THEN 201 ELSE 500]

\* api_share_file without the comparison of the caller with the owner
api_share_file_any_caller(S, user_id, req, pub, ts) ==
    LET dir == get_user_dir(S, user_id)
    IN  IF req.filename \notin DOMAIN dir THEN [st |-> S, code |-> 404]
        ELSE [st |-> publish_event(S, build_event("file_shared",
                         SharedPayload(user_id, dir[req.filename], req.filename,
                                       req.authorized_users), ts), pub),
              code |-> IF pub THEN 200 ELSE 500]

\* api_share_file for the authenticated user_id: the metadata is read
\* through the caller's entry req.filename (404 when there is none), a
\* caller who is not its owner gets 403, else file_shared is published
api_share_file(S, user_id, req, pub, ts) ==
    LET dir == get_user_dir(S, user_id)
    IN  IF req.filename \notin DOMAIN dir THEN [st |-> S, code |-> 404]
        ELSE IF S.meta[dir[req.filename]].owner # user_id THEN [st |-> S, code |-> 403]
        ELSE [st |-> publish_event(S, build_event("file_shared",
                         SharedPayload(user_id, dir[req.filename], req.filename,
                                       req.authorized_users), ts), pub),
              code |-> IF pub THEN 200 ELSE 500]

\* core/files.py get_file_id_by_name under @cached(_file_id_cache): a key
\* the cache holds is answered from it; else the entry is read (NoFileId
\* stands for FileNotFoundError) and, when found, its file_id is cached.
\* Nothing removes a key from the cache; its LRU limit of 100 is out of
\* reach of the keys of the model.
get_file_id_by_name(S, cache, user_id, filename) ==
    LET key == <<user_id, filename>>
        dir == get_user_dir(S, user_id)
    IN  IF key \in DOMAIN cache THEN [file_id |-> cache[key], cache |-> cache]
        ELSE IF filename \notin DOMAIN dir THEN [file_id |-> NoFileId, cache |-> cache]
        ELSE [file_id |-> dir[filename], cache |-> cache @@ (key :> dir[filename])]

\* api_delete_file for the authenticated user_id
api_delete_file(S, cache, user_id, filename, pub, ts) ==
    LET r == get_file_id_by_name(S, cache, user_id, filename)
        out == [st |-> S, cache |-> r.cache, code |-> 404, file_id |-> r.file_id]
    IN  IF r.file_id = NoFileId THEN out
        ELSE IF ~user_has_access(S.meta, user_id, r.file_id) THEN [out EXCEPT !.code = 403]
        ELSE [out EXCEPT
                 !.st = publish_event(S, build_event("file_deleted",
                            FilePayload(user_id, r.file_id, filename), ts), pub),
                 !.code = IF pub THEN 200 ELSE 500]

\* api_rename_file for the authenticated user_id
api_rename_file(S, cache, user_id, filename, new_name, pub, ts) ==
    LET r == get_file_id_by_name(S, cache, user_id, filename)
        out == [st |-> S, cache |-> r.cache, code |-> 404, file_id |-> r.file_id]
    IN  IF r.file_id = NoFileId THEN out
        ELSE IF ~user_has_access(S.meta, user_id, r.file_id) THEN [out EXCEPT !.code = 403]
        ELSE [out EXCEPT
                 !.st = publish_event(S, build_event("file_renamed",
                            RenamedPayload(user_id, r.file_id, filename, new_name), ts), pub),
                 !.code = IF pub THEN 200 ELSE 500]

\* api_get_file_data: the public peer endpoint
api_get_file_data(S, file_id) ==
    IF file_id \notin DOMAIN S.blobs
    THEN [op |-> "data", code |-> 404, file_id |-> file_id, body |-> <<>>]
    ELSE [op |-> "data", code |-> 200, file_id |-> file_id, body |-> S.blobs[file_id]]

\* The peers of replica_nodes that fetch_wrapper can reach: those the node
\* registry resolves to an address (get_file_url_for_node).
candidates(S, file_id) ==
    {n \in Range(S.meta[file_id].replica_nodes) : n # SELF /\ n \in DOMAIN S.nodes}

\* api_download_file that serves without the file_accessed event
api_download_file_unaudited(S, user_id, filename, pub, winner, src, ts, ready) ==
    LET dir == get_user_dir(S, user_id)
        file_id == dir[filename]
        crypto == get_user_crypto(S.meta, user_id, file_id)
        none == [st |-> S, code |-> 404, file_id |-> NoFileId, crypto |-> NoCrypto,
                 body |-> <<>>, xfer |-> <<>>]
    IN  IF filename \notin DOMAIN dir THEN none
        ELSE IF ~user_has_access(S.meta, user_id, file_id)
        THEN [none EXCEPT !.code = 403, !.file_id = file_id]
        ELSE LET ok == [none EXCEPT !.code = 200, !.file_id = file_id,
                                    !.crypto = crypto]
             IN  IF file_id \in DOMAIN S.blobs
                 THEN [ok EXCEPT !.body = S.blobs[file_id]]
                 ELSE IF winner \notin candidates(S, file_id)
                 THEN [none EXCEPT !.file_id = file_id]
                 ELSE [ok EXCEPT !.xfer = <<[file_id |-> file_id, from |-> winner,
                                             src |-> src, sent |-> <<>>,
                                             open |-> (ready \cap candidates(S, file_id))
                                                         \ {winner}]>>]

\* api_download_file for the authenticated user_id.  pub: whether the
\* file_accessed event could be published; winner: the peer whose
\* fetch_wrapper task completed first with a stream (NoKey when none did);
\* src: the chunks that peer's stream will deliver; ready: the peers whose
\* tasks had also completed with a stream when the handler resumed.  The
\* tasks still pending are cancelled; t.cancel() does nothing to a task that
\* is done, so the response streams of the other ready peers stay open,
\* unread (field open).
api_download_file(S, user_id, filename, pub, winner, src, ts, ready) ==
    LET dir == get_user_dir(S, user_id)
        file_id == dir[filename]
        crypto == get_user_crypto(S.meta, user_id, file_id)
        none == [st |-> S, code |-> 404, file_id |-> NoFileId, crypto |-> NoCrypto,
                 body |-> <<>>, xfer |-> <<>>]
    IN  IF filename \notin DOMAIN dir THEN none
        ELSE IF ~user_has_access(S.meta, user_id, file_id)
        THEN [none EXCEPT !.code = 403, !.file_id = file_id]
        ELSE IF ~pub THEN [none EXCEPT !.code = 500, !.file_id = file_id]
        ELSE LET S1 == publish_event(S, build_event("file_accessed",
                           FilePayload(user_id, file_id, filename), ts), TRUE)
                 ok == [none EXCEPT !.st = S1, !.code = 200, !.file_id = file_id,
                                    !.crypto = crypto]
             IN  IF file_id \in DOMAIN S.blobs
                 THEN [ok EXCEPT !.body = S.blobs[file_id]]
                 ELSE IF winner \notin candidates(S, file_id)
                 THEN [none EXCEPT !.st = S1, !.file_id = file_id]
                 ELSE [ok EXCEPT !.xfer = <<[file_id |-> file_id, from |-> winner,
                                             src |-> src, sent |-> <<>>,
                                             open |-> (ready \cap candidates(S, file_id))
                                                         \ {winner}]>>]

\* f.write(chunk) on a handle whose position is offset: the chunk replaces
\* what the file holds there, a gap before it reads as zeroes
write_at(current, offset, chunk) ==
    [i \in 1 .. (IF Len(current) > offset + 1 THEN Len(current) ELSE offset + 1) |->
        IF i = offset + 1 THEN chunk
        ELSE IF i <= Len(current) THEN current[i]
        ELSE 0]

\* One iteration of the loop of stream_and_store: the next chunk is written
\* to the local path and yielded to the client.  aiofiles.open(.., "wb")
\* precedes the first write.
stream_and_store_chunk(S, x) ==
    LET chunk == Head(x.src)
        current == IF x.sent = <<>> \/ x.file_id \notin DOMAIN S.blobs
                   THEN <<>> ELSE S.blobs[x.file_id]
    IN  [st |-> write_blob(S, x.file_id, write_at(current, Len(x.sent), chunk)),
         xfer |-> [x EXCEPT !.src = Tail(x.src), !.sent = Append(x.sent, chunk)]]

\* The end of stream_and_store: the source iterator is exhausted (a peer
\* failure is swallowed by try_fetch_from_node and ends it too), and the
\* file_replicated event is sent.
stream_and_store_end(S, x, pub, ts) ==
    publish_event(S, build_event("file_replicated", [file_id |-> x.file_id], ts), pub)

\* -------------------------------------------------------------- core/auth.py
\* TTLCache: the entries in the order they were set, each with the time it
\* was set at.  expire drops the entries whose time has come.
ttl_expire(cache, now, ttl) == SelectSeq(cache, LAMBDA e : now < e.at + ttl)

\* the position of the first entry of key, 0 when there is none
RECURSIVE ttl_index(_, _, _)
ttl_index(cache, key, i) ==
    IF i > Len(cache) THEN 0
    ELSE IF cache[i].key = key THEN i
    ELSE ttl_index(cache, key, i + 1)

\* cache.get(key): None for a key that is absent or expired
ttl_get(cache, key, now, ttl) ==
    LET live == ttl_expire(cache, now, ttl)
        i == ttl_index(live, key, 1)
    IN  IF i = 0 THEN NoValue ELSE live[i].value

\* cache[key] = value: expired entries go, an entry of key is replaced in
\* place of being added, and a new key in a full cache pushes the oldest
\* entry out
ttl_set(cache, key, value, now, ttl) ==
    LET live == ttl_expire(cache, now, ttl)
        others == SelectSeq(live, LAMBDA e : e.key # key)
        room == IF Len(others) = Len(live) /\ Len(live) >= CACHE_MAXSIZE
                THEN Tail(live) ELSE others
    IN  Append(room, [key |-> key, value |-> value, at |-> now])

\* generate_challenge that adds the challenge beside the one it should replace
generate_challenge_keep_prior(A, user_id) ==
    [A EXCEPT !.drawn = @ + 1,
              !.challenge_cache = Append(@, [key |-> user_id, value |-> A.drawn + 1,
                                             at |-> A.now])]

\* generate_challenge: urandom(24) never repeats, modelled by a counter
generate_challenge(A, user_id) ==
    [A EXCEPT !.drawn = @ + 1,
              !.challenge_cache = ttl_set(@, user_id, A.drawn + 1, A.now, CHALLENGE_TTL)]

get_challenge(A, user_id) == ttl_get(A.challenge_cache, user_id, A.now, CHALLENGE_TTL)

create_session_token(A, user_id) ==
    [A EXCEPT !.drawn = @ + 1,
              !.session_tokens = ttl_set(@, A.drawn + 1, user_id, A.now, SESSION_TTL)]

\* require_auth: 401 unless the header is "Bearer <token>" and the token is
\* in the cache, else the user_id stored under it
require_auth(A, authorization) ==
    LET user_id == ttl_get(A.session_tokens, authorization.token, A.now, SESSION_TTL)
    IN  IF authorization.scheme # "Bearer" \/ user_id = NoValue
        THEN [code |-> 401, user_id |-> NoValue]
        ELSE [code |-> 200, user_id |-> user_id]

\* ------------------------------------------------------- api/routes/auth.py
\* api_request_challenge
api_request_challenge(S, A, user_id) ==
    IF user_id \notin DOMAIN S.users
    THEN [auth |-> A, code |-> 404, challenge |-> NoValue]
    ELSE [auth |-> generate_challenge(A, user_id), code |-> 200,
          challenge |-> A.drawn + 1]

\* api_verify that never looks at the signature
api_verify_any_signature(S, A, req, pub, ts) ==
    LET challenge == get_challenge(A, req.user_id)
        A1 == create_session_token(A, req.user_id)
    IN  IF challenge = NoValue THEN [st |-> S, auth |-> A, code |-> 400]
        ELSE IF req.user_id \notin DOMAIN S.users THEN [st |-> S, auth |-> A, code |-> 404]
        ELSE [st |-> publish_event(S, build_event("user_joined_node",
                         [user_id |-> req.user_id, signature |-> req.signature,
                          challenge |-> challenge,
                          public_key |-> S.users[req.user_id].public_key], ts), pub),
              auth |-> A1, code |-> IF pub THEN 200 ELSE 500]

\* api_verify: 400 without a live challenge, 404 for an unknown user, 403
\* when the signature is not the user's over the challenge; then the token
\* is created, and after it the user_joined_node event is published (500
\* when that fails)
api_verify(S, A, req, pub, ts) ==
    LET challenge == get_challenge(A, req.user_id)
        A1 == create_session_token(A, req.user_id)
    IN  IF challenge = NoValue THEN [st |-> S, auth |-> A, code |-> 400]
        ELSE IF req.user_id \notin DOMAIN S.users THEN [st |-> S, auth |-> A, code |-> 404]
        ELSE IF ~Verify(S.users[req.user_id].public_key, challenge, req.signature)
        THEN [st |-> S, auth |-> A, code |-> 403]
        ELSE [st |-> publish_event(S, build_event("user_joined_node",
                         [user_id |-> req.user_id, signature |-> req.signature,
                          challenge |-> challenge,
                          public_key |-> S.users[req.user_id].public_key], ts), pub),
              auth |-> A1, code |-> IF pub THEN 200 ELSE 500]

\* api_register: 409 for a user_id the registry holds, else the
\* user_registered event is published; the registry itself changes when
\* that event is ingested
api_register(S, req, pub, ts) ==
    IF req.user_id \in DOMAIN S.users THEN [st |-> S, code |-> 409]
    ELSE [st |-> publish_event(S, build_event("user_registered",
                     [user_id |-> req.user_id, public_key |-> req.public_key], ts), pub),
          code |-> IF pub THEN 201 ELSE 500]

\* ------------------------------------------------------------------ state
\* The node's own registration, published by main() on first boot.
SelfRegistered == build_event("node_registered", [public_key |-> 1, addr |-> 1], 0)

\* Registrations whose identifier is not the hash of the key they carry.
RegistryBlocks == <<
    \* node_id N2 with the key of N3, signed with that key
    Envelope("node_registered", 7, N2, [public_key |-> 3, addr |-> 3], 3),
    \* user_id U2 with the key whose hash is U1
    Envelope("user_registered", 7, N2, [user_id |-> U2, public_key |-> 4], 2),
    \* user_id U1 again, with another key
    Envelope("user_registered", 7, N2, [user_id |-> U1, public_key |-> 5], 2)
>>

\* A file_created whose filename the event model accepts and the
\* filesystem refuses.
LongNameBlocks == <<
    Envelope("file_created", 8, N2, CreatedPayload(U1, F2, LONG_PDF, 2, <<Au(U1, 1)>>), 2)
>>

\* the blocks on the ledger when the node starts
PeerLedger == PeerBlocks \o <<SelfRegistered>> \o RegistryBlocks \o LongNameBlocks

\* the block of the node's own registration
SelfBlock == Len(PeerBlocks) + 1

\* iota/client.py fetch_event: the envelope of block_id
fetch_event(emitted_, block_id) ==
    IF block_id <= Len(PeerLedger)
    THEN PeerLedger[block_id]
    ELSE emitted_[block_id - Len(PeerLedger)]

BlockIds == 1 .. (Len(PeerLedger) + MaxLocal)

RECURSIVE order_by_timestamp(_)
\* ORDER BY timestamp of list_events; rows of one timestamp come in the
\* order of their block_id
order_by_timestamp(rows) ==
    IF rows = {} THEN <<>>
    ELSE LET first == CHOOSE r \in rows : \A q \in rows :
                          \/ r.timestamp < q.timestamp
                          \/ r.timestamp = q.timestamp /\ r.block_id <= q.block_id
         IN  <<first>> \o order_by_timestamp(rows \ {first})

\* core/events.py list_events: every indexed event but node_status, and of
\* node_status the last row of each node (the peers here publish one
\* node_status each, so every such row is its node's last), by timestamp
list_events(events_) == order_by_timestamp(events_)

\* a node before its first event
EmptyNode ==
    [nodes |-> <<>>, users |-> <<>>, meta |-> <<>>, entries |-> <<>>,
     blobs |-> <<>>, emitted |-> <<>>, log |-> "applied"]

RECURSIVE seed_loop(_, _, _, _)
\* The loop of core/nodes.py sync_node_status on a node in state T (st,
\* events): fetch_and_process_event for each listed event in turn.  The
\* peers the seeded node would clone from are not asked.
seed_loop(T, listed, ledger_emitted, ts) ==
    IF listed = <<>> THEN T
    ELSE LET b == Head(listed).block_id
             T1 == process_event([T.st EXCEPT !.log = "applied"], T.events, b,
                                 fetch_event(ledger_emitted, b), NoAnswer, FALSE, ts)
         IN  seed_loop(T1, Tail(listed), ledger_emitted, ts)

\* sync_node_status of an empty node from a seed whose event index is events_
sync_node_status(events_, ledger_emitted, ts) ==
    seed_loop([st |-> EmptyNode, events |-> {}], list_events(events_), ledger_emitted, ts)

St ==
    [nodes |-> nodes, users |-> users, meta |-> meta, entries |-> entries,
     blobs |-> blobs, emitted |-> emitted, log |-> "applied"]

\* what the uploads of the model send
UploadContents == {<<1, 2>>, <<2, 1>>, <<1, 2, 1>>}

UploadMetas ==
    {[filename |-> A_PDF, file_id |-> F1, size |-> 1, authorized_users |-> <<Au(U1, 1)>>],
     [filename |-> A_PDF, file_id |-> F1, size |-> 1,
      authorized_users |-> <<Au(U1, 1), Au(U1, 2)>>]}

\* what a peer may answer to GET /files/{file_id}/data
PeerAnswers == {NoAnswer} \cup Contents

\* whether the ledger takes one more block of this node
PubOutcomes == IF Len(emitted) < MaxLocal THEN BOOLEAN ELSE {FALSE}

\* the blocks of the peers that carry the ingestion scenarios
IngestBlocks == 1 .. Len(PeerBlocks)

\* the blocks of the peers that the storage scenarios need
StoreBlocks == {1, 3, 4, SelfBlock}

InitNode ==
    /\ nodes = <<>>
    /\ users = <<>>
    /\ meta = <<>>
    /\ entries = <<>>
    /\ blobs = <<>>
    /\ events = {}
    /\ emitted = <<>>
    /\ xfer = <<>>
    /\ resp = [op |-> "none"]
    /\ steps = 0
    /\ auth = [challenge_cache |-> <<>>, session_tokens |-> <<>>, now |-> 0, drawn |-> 0]
    /\ file_id_cache = <<>>
    /\ listener = [at |-> "idle"]
    /\ caches = [node |-> <<>>, metadata |-> <<>>]

Init == InitNode /\ announced = IngestBlocks

InitStore == InitNode /\ announced = StoreBlocks

\* mqtt/client.py publish_event, called by core publish_event with the
\* block id the ledger returned: the message is built by subscripting the
\* event, which is a model object and not a dict; the exception is caught
\* and logged there, so no announcement of block_id reaches the bus and the
\* caller is not told
publish_event_to_mqtt(block_id, event) == {}

Install(S) ==
    /\ nodes' = S.nodes
    /\ users' = S.users
    /\ meta' = S.meta
    /\ entries' = S.entries
    /\ blobs' = S.blobs
    /\ emitted' = S.emitted
    /\ announced' = announced \cup
          UNION {publish_event_to_mqtt(Len(PeerLedger) + i, S.emitted[i]) :
                    i \in (Len(emitted) + 1) .. Len(S.emitted)}

\* whether processing e sends the GET of clone to the emitter: the event is
\* a file_created that verifies and parses, small enough to clone, from a
\* node with a known address
clone_requested(S, e) ==
    /\ e.event_type = "file_created"
    /\ verify_signature(e, S.nodes)
    /\ event_model_ok(e)
    /\ e.payload.size < EC_MIN_SIZE
    /\ should_clone_from(e.node_id, e.payload.size)
    /\ e.node_id \in DOMAIN S.nodes

\* The bus thread after the callback on_message: ABR (utils/logger.py) calls
\* sys.exit, whose SystemExit passes the except Exception of on_message and
\* ends the thread that runs the callback; any other outcome returns to the
\* loop.
after_callback(l, log) == IF log = "aborted" THEN [at |-> "exited"] ELSE l

\* mqtt/listener.py on_message -> fetch_and_process_event(block_id); also
\* one iteration of the seeding loop of sync_node_status
OnMessage(b) ==
    /\ steps < MaxSteps
    /\ listener.at = "idle"
    /\ b \in announced
    /\ LET e == fetch_event(emitted, b)
       IN  \E r \in (IF clone_requested(St, e) THEN PeerAnswers ELSE {NoAnswer}),
              pub \in (IF clone_requested(St, e) THEN PubOutcomes ELSE {FALSE}) :
              LET T == process_event(St, events, b, e, r, pub, steps + 1)
              IN  /\ Install(T.st)
                  /\ events' = T.events
                  /\ listener' = after_callback(listener, T.st.log)
                  /\ resp' = [op |-> "ingest", block |-> b, log |-> T.st.log,
                              answer |-> r]
    /\ steps' = steps + 1
    /\ UNCHANGED <<xfer, auth, file_id_cache, caches>>

ApiUpload(u, contents, m) ==
    /\ steps < MaxSteps
    /\ \E pub \in PubOutcomes :
          LET T == api_upload_file(St, u, contents, m, pub, steps + 1)
          IN  /\ Install(T.st)
              /\ resp' = [op |-> "upload", code |-> T.code, user_id |-> u,
                          file_id |-> m.file_id, contents |-> contents,
                          metadata |-> m]
    /\ steps' = steps + 1
    /\ UNCHANGED <<events, xfer, auth, file_id_cache, listener, caches>>

ApiDownload(u, filename) ==
    /\ steps < MaxSteps
    /\ xfer = <<>>
    /\ \E pub \in PubOutcomes, winner \in {N2, NoKey}, src \in Contents,
          ready \in SUBSET {N3} :
          LET T == api_download_file(St, u, filename, pub, winner, src, steps + 1, ready)
          IN  /\ Install(T.st)
              /\ xfer' = T.xfer
              /\ resp' = [op |-> "download", code |-> T.code, user_id |-> u,
                          filename |-> filename, file_id |-> T.file_id,
                          crypto |-> T.crypto, body |-> T.body]
    /\ steps' = steps + 1
    /\ UNCHANGED <<events, auth, file_id_cache, listener, caches>>

ApiGetFileData(f) ==
    /\ steps < MaxSteps
    /\ resp' = api_get_file_data(St, f)
    /\ steps' = steps + 1
    /\ UNCHANGED <<nodes, users, meta, entries, blobs, events, emitted, announced, xfer, auth, file_id_cache, listener, caches>>

ProxyChunk ==
    /\ steps < MaxSteps
    /\ xfer # <<>>
    /\ xfer[1].src # <<>>
    /\ LET T == stream_and_store_chunk(St, xfer[1])
       IN  /\ Install(T.st)
           /\ xfer' = <<T.xfer>>
    /\ resp' = [op |-> "chunk", file_id |-> xfer[1].file_id]
    /\ steps' = steps + 1
    /\ UNCHANGED <<events, auth, file_id_cache, listener, caches>>

ProxyEnd ==
    /\ steps < MaxSteps
    /\ xfer # <<>>
    /\ xfer[1].src = <<>>
    /\ \E pub \in PubOutcomes :
          /\ Install(stream_and_store_end(St, xfer[1], pub, steps + 1))
          /\ resp' = [op |-> "stream_end", file_id |-> xfer[1].file_id, emitted |-> pub]
    /\ xfer' = <<>>
    /\ steps' = steps + 1
    /\ UNCHANGED <<events, auth, file_id_cache, listener, caches>>

\* The peer's stream breaks after the first chunk was relayed:
\* try_fetch_from_node logs the exception and its generator ends, so the
\* loop of stream_and_store ends as on a complete stream and the
\* file_replicated event is sent.
ProxyPeerFails ==
    /\ steps < MaxSteps
    /\ xfer # <<>>
    /\ xfer[1].sent # <<>>
    /\ xfer[1].src # <<>>
    /\ \E pub \in PubOutcomes :
          /\ Install(stream_and_store_end(St, xfer[1], pub, steps + 1))
          /\ resp' = [op |-> "stream_failed", file_id |-> xfer[1].file_id, emitted |-> pub]
    /\ xfer' = <<>>
    /\ steps' = steps + 1
    /\ UNCHANGED <<events, auth, file_id_cache, listener, caches>>

\* the client goes away: the response generator is closed where it stands
ProxyAbort ==
    /\ steps < MaxSteps
    /\ xfer # <<>>
    /\ xfer' = <<>>
    /\ resp' = [op |-> "stream_abort", file_id |-> xfer[1].file_id]
    /\ steps' = steps + 1
    /\ UNCHANGED <<nodes, users, meta, entries, blobs, events, emitted, announced, auth, file_id_cache, listener, caches>>

\* the ingestion pipeline alone, fed by the bus
Next == \E b \in BlockIds : OnMessage(b)

Spec == Init /\ [][Next]_vars

\* the ciphertext store: uploads, downloads, the peer endpoint, ingestion
NextStore ==
    \/ \E b \in BlockIds : OnMessage(b)
    \/ \E u \in {U1}, c \in UploadContents, m \in UploadMetas : ApiUpload(u, c, m)
    \/ \E u \in UserIds, n \in {A_PDF, A1_PDF} : ApiDownload(u, n)
    \/ \E f \in {F1} : ApiGetFileData(f)
    \/ ProxyChunk
    \/ ProxyEnd
    \/ ProxyPeerFails
    \/ ProxyAbort

SpecStore == InitStore /\ [][NextStore]_vars

\* the blocks that give file F1 two replica peers, N2 and N3
RaceBlocks == {1, 3, 9, 10}

InitRace == InitNode /\ announced = RaceBlocks

\* downloads of a file that several peers hold
NextRace ==
    \/ \E b \in BlockIds : OnMessage(b)
    \/ \E n \in {A_PDF} : ApiDownload(U1, n)
    \/ ProxyChunk
    \/ ProxyEnd
    \/ ProxyPeerFails
    \/ ProxyAbort

SpecRace == InitRace /\ [][NextRace]_vars

\* POST /files/share
ApiShare(u, req) ==
    /\ steps < MaxSteps
    /\ \E pub \in PubOutcomes :
          LET T == api_share_file(St, u, req, pub, steps + 1)
          IN  /\ Install(T.st)
              /\ resp' = [op |-> "share", code |-> T.code, user_id |-> u,
                          filename |-> req.filename]
    /\ steps' = steps + 1
    /\ UNCHANGED <<events, xfer, auth, file_id_cache, listener, caches>>

\* the share requests the clients of the model send
ShareRequests ==
    {[filename |-> n, authorized_users |-> <<Au(U2, 2)>>] : n \in {A_PDF, B_PDF}}

\* a file of U1 that U1 has shared with U2, and the node's own registration
ShareBlocks == {1, 2, 3, 5, SelfBlock}

InitShare == InitNode /\ announced = ShareBlocks

\* sharing: ingestion and POST /files/share
NextShare ==
    \/ \E b \in BlockIds : OnMessage(b)
    \/ \E u \in UserIds, req \in ShareRequests : ApiShare(u, req)

SpecShare == InitShare /\ [][NextShare]_vars

\* ---------------------------------------------------------- mqtt/listener.py
\* Identifier texts are sequences of characters; an identifier has HEX_LEN
\* hexadecimal digits (64 in the program).
HEX_LEN == 2

HexDigits == {"0", "a", "b"}

\* core/constants.py VALID_EVENT_TYPES
VALID_EVENT_TYPES == EVENT_HANDLERS \cup {"file_copied"}

\* SHA256_HEX_PATTERN.match(text) for the pattern ^0x[a-f0-9]{64}$ : the
\* prefix, the digits, and then the end of the text; $ also matches just
\* before a newline that ends the text
SHA256_HEX_PATTERN_match(text) ==
    /\ Len(text) \in {HEX_LEN + 2, HEX_LEN + 3}
    /\ text[1] = "0"
    /\ text[2] = "x"
    /\ \A i \in 3 .. (HEX_LEN + 2) : text[i] \in HexDigits
    /\ Len(text) = HEX_LEN + 3 => text[HEX_LEN + 3] = "\n"

\* validate_event: data.fields are the keys the message has
validate_event(data) ==
    /\ {"block_id", "event_type", "timestamp", "node_id"} \subseteq data.fields
    /\ data.event_type \in VALID_EVENT_TYPES
    /\ SHA256_HEX_PATTERN_match(data.block_id)
    /\ SHA256_HEX_PATTERN_match(<<"0", "x">> \o data.node_id)

\* the identifier texts of the ledger blocks 1 and 2
BlockIdText(b) == IF b = 1 THEN <<"0", "x", "a", "b">> ELSE <<"0", "x", "b", "a">>

\* the ledger block a GET of the ledger URL with this text returns, 0 when
\* the ledger answers with an error
block_of_text(text) ==
    IF text = BlockIdText(1) THEN 1 ELSE IF text = BlockIdText(2) THEN 2 ELSE 0

\* on_message for a message as the bus delivers it: a message that does not
\* validate is dropped; else fetch_and_process_event(block_id) runs, and a
\* fetch the ledger answers with an error raises into the handler's except
OnAnnouncement(data) ==
    /\ steps < MaxSteps
    /\ listener.at = "idle"
    /\ LET accepted == validate_event(data)
           b == block_of_text(data.block_id)
       IN  IF accepted /\ b # 0
           THEN LET T == process_event(St, events, b, fetch_event(emitted, b), NoAnswer,
                                       FALSE, steps + 1)
                IN  /\ Install(T.st)
                    /\ events' = T.events
                    /\ listener' = after_callback(listener, T.st.log)
                    /\ resp' = [op |-> "announce", data |-> data, accepted |-> TRUE,
                                fetched |-> TRUE]
           ELSE /\ resp' = [op |-> "announce", data |-> data, accepted |-> accepted,
                            fetched |-> accepted]
                /\ UNCHANGED <<nodes, users, meta, entries, blobs, events, emitted,
                               announced, listener>>
    /\ steps' = steps + 1
    /\ UNCHANGED <<xfer, auth, file_id_cache, caches>>

\* the messages the bus delivers: each lacks at most one key
Announcements ==
    [fields : {{"block_id", "event_type", "timestamp", "node_id"} \ missing :
                  missing \in {{}, {"block_id"}, {"event_type"}, {"timestamp"},
                               {"node_id"}}},
     event_type : {"node_registered", "invalid_type"},
     block_id : {BlockIdText(1), BlockIdText(2), <<"a", "b">>, <<"0", "x", "a">>,
                 <<"0", "x", "a", "G">>, <<"0", "x", "a", "b", "b">>,
                 <<"0", "x", "a", "b", "\n">>},
     node_id : {<<"a", "b">>, <<"0", "x", "a", "b">>, <<"a">>, <<"G", "b">>,
                <<"a", "b", "\n">>}]

InitBus == InitNode /\ announced = {}

\* the bus listener
NextBus == \E data \in Announcements : OnAnnouncement(data)

SpecBus == InitBus /\ [][NextBus]_vars

\* A node signs the dict d with private key k and puts the envelope on the
\* ledger; this node fetches it and verifies it.
SignEvent(d, k) ==
    /\ steps < MaxSteps
    /\ LET json == [event_type |-> d.event_type, timestamp |-> d.timestamp,
                    node_id |-> d.node_id, payload |-> d.payload,
                    signature |-> sign_event(d, k)]
       IN  resp' = [op |-> "signed", json |-> json, original |-> json,
                    was |-> verify_signature(parse_raw(json), nodes),
                    verified |-> verify_signature(parse_raw(json), nodes)]
    /\ steps' = steps + 1
    /\ UNCHANGED <<nodes, users, meta, entries, blobs, events, emitted, announced, xfer,
                   auth, file_id_cache, listener, caches>>

\* One field of the envelope last signed is changed before this node
\* fetches and verifies it.
TamperEvent(field, v) ==
    /\ steps < MaxSteps
    /\ resp.op = "signed"
    /\ LET o == resp.json
           json == CASE field = "event_type" -> [o EXCEPT !.event_type = v]
                     [] field = "timestamp" -> [o EXCEPT !.timestamp = v]
                     [] field = "node_id" -> [o EXCEPT !.node_id = v]
                     [] field = "public_key" -> [o EXCEPT !.payload.public_key = v]
                     [] field = "addr" -> [o EXCEPT !.payload.addr = v]
       IN  resp' = [op |-> "tampered", json |-> json, original |-> o,
                    was |-> resp.verified,
                    verified |-> verify_signature(parse_raw(json), nodes)]
    /\ steps' = steps + 1
    /\ UNCHANGED <<nodes, users, meta, entries, blobs, events, emitted, announced, xfer,
                   auth, file_id_cache, listener, caches>>

\* the dicts the nodes of the model sign
SignedDicts ==
    [event_type : {"node_registered", "node_status"}, timestamp : {1, Zulu(1)},
     node_id : {N2, N3}, payload : [public_key : {2, 3}, addr : {1, 2}]]

\* the values a field can be changed to
TamperValues ==
    [event_type |-> {"node_registered", "node_status"}, timestamp |-> {1, 2, Zulu(1)},
     node_id |-> {N2, N3}, public_key |-> {2, 3}, addr |-> {1, 2}]

\* the registrations of N2 and N3
SignBlocks == {1, 10}

InitSign == InitNode /\ announced = SignBlocks

\* signing and verification of envelopes
NextSign ==
    \/ \E b \in BlockIds : OnMessage(b)
    \/ \E d \in SignedDicts, k \in {2, 3} : SignEvent(d, k)
    \/ \E field \in DOMAIN TamperValues : \E v \in TamperValues[field] :
          TamperEvent(field, v)

SpecSign == InitSign /\ [][NextSign]_vars

\* DELETE /files/{filename}
ApiDelete(u, filename) ==
    /\ steps < MaxSteps
    /\ \E pub \in PubOutcomes :
          LET T == api_delete_file(St, file_id_cache, u, filename, pub, steps + 1)
          IN  /\ Install(T.st)
              /\ file_id_cache' = T.cache
              /\ resp' = [op |-> "delete", code |-> T.code, user_id |-> u,
                          filename |-> filename, file_id |-> T.file_id]
    /\ steps' = steps + 1
    /\ UNCHANGED <<events, xfer, auth, listener, caches>>

\* PATCH /files/{filename}
ApiRename(u, filename, new_name) ==
    /\ steps < MaxSteps
    /\ \E pub \in PubOutcomes :
          LET T == api_rename_file(St, file_id_cache, u, filename, new_name, pub,
                                   steps + 1)
          IN  /\ Install(T.st)
              /\ file_id_cache' = T.cache
              /\ resp' = [op |-> "rename", code |-> T.code, user_id |-> u,
                          filename |-> filename, file_id |-> T.file_id]
    /\ steps' = steps + 1
    /\ UNCHANGED <<events, xfer, auth, listener, caches>>

\* a file a.pdf of U1, and the events of a peer that rename and delete it
NameBlocks == {1, 3, 7, 8}

InitNames == InitNode /\ announced = NameBlocks

\* requests by name: ingestion, download, rename and delete
NextNames ==
    \/ \E b \in BlockIds : OnMessage(b)
    \/ \E n \in {A_PDF, B_PDF} : ApiDownload(U1, n)
    \/ \E n \in {A_PDF, B_PDF} : ApiDelete(U1, n)
    \/ \E n \in {A_PDF, B_PDF} : ApiRename(U1, n, B_PDF)

SpecNames == InitNames /\ [][NextNames]_vars

\* POST /auth/challenge
ApiChallenge(u) ==
    /\ steps < MaxSteps
    /\ LET T == api_request_challenge(St, auth, u)
       IN  /\ auth' = T.auth
           /\ resp' = [op |-> "challenge", code |-> T.code, user_id |-> u,
                       challenge |-> T.challenge,
                       replaced |-> IF T.code = 200 THEN get_challenge(auth, u)
                                    ELSE NoValue]
    /\ steps' = steps + 1
    /\ UNCHANGED <<nodes, users, meta, entries, blobs, events, emitted, announced, xfer, file_id_cache, listener, caches>>

\* POST /auth/verify
ApiVerify(req) ==
    /\ steps < MaxSteps
    /\ \E pub \in PubOutcomes :
          LET T == api_verify(St, auth, req, pub, steps + 1)
          IN  /\ Install(T.st)
              /\ auth' = T.auth
              /\ resp' = [op |-> "verify", code |-> T.code, user_id |-> req.user_id,
                          signature |-> req.signature,
                          access_token |-> IF T.auth = auth THEN NoValue
                                           ELSE T.auth.drawn]
    /\ steps' = steps + 1
    /\ UNCHANGED <<events, xfer, file_id_cache, listener, caches>>

\* a request to a route that depends on require_auth
ApiAuthenticated(authorization) ==
    /\ steps < MaxSteps
    /\ LET T == require_auth(auth, authorization)
       IN  resp' = [op |-> "auth", code |-> T.code, user_id |-> T.user_id,
                    token |-> authorization.token]
    /\ steps' = steps + 1
    /\ UNCHANGED <<nodes, users, meta, entries, blobs, events, emitted, announced, xfer,
                   auth, file_id_cache, listener, caches>>

\* time passes
Tick ==
    /\ auth.now < MaxClock
    /\ auth' = [auth EXCEPT !.now = @ + 1]
    /\ UNCHANGED <<nodes, users, meta, entries, blobs, events, emitted, announced, xfer,
                   resp, steps, file_id_cache, listener, caches>>

\* the signatures a client can send: made with the key of U1 or of U2, over
\* a challenge that has been handed out
VerifyRequests ==
    {[user_id |-> u, signature |-> [key |-> k, over |-> c]] :
        u \in UserIds, k \in {4, 5}, c \in 1 .. auth.drawn}

\* the Authorization headers a client can send
Authorizations ==
    {[scheme |-> sch, token |-> t] : sch \in {"Bearer", "Basic"}, t \in 1 .. auth.drawn}

\* N2 and the registrations of U1 and U2
AuthBlocks == {1, 2, SelfBlock + 2}

InitAuth == InitNode /\ announced = AuthBlocks

\* login: ingestion of the registrations, challenge, verify, require_auth
NextAuth ==
    \/ \E b \in BlockIds : OnMessage(b)
    \/ \E u \in UserIds : ApiChallenge(u)
    \/ \E req \in VerifyRequests : ApiVerify(req)
    \/ \E a \in Authorizations : ApiAuthenticated(a)
    \/ Tick

SpecAuth == InitAuth /\ [][NextAuth]_vars

\* POST /auth/register
ApiRegister(req) ==
    /\ steps < MaxSteps
    /\ \E pub \in PubOutcomes :
          LET T == api_register(St, req, pub, steps + 1)
          IN  /\ Install(T.st)
              /\ resp' = [op |-> "register", code |-> T.code, user_id |-> req.user_id,
                          public_key |-> req.public_key]
    /\ steps' = steps + 1
    /\ UNCHANGED <<events, xfer, auth, file_id_cache, listener, caches>>

\* the registrations the clients of the model ask for
RegisterRequests ==
    {[user_id |-> U1, public_key |-> 4], [user_id |-> U2, public_key |-> 4]}

\* the blocks that fill and challenge the registries
RegistryIds ==
    {1, 2, 10, SelfBlock} \cup {SelfBlock + i : i \in 1 .. Len(RegistryBlocks)}

InitRegistry == InitNode /\ announced = RegistryIds

\* the node and user registries: ingestion and POST /auth/register
NextRegistry ==
    \/ \E b \in BlockIds : OnMessage(b)
    \/ \E req \in RegisterRequests : ApiRegister(req)

SpecRegistry == InitRegistry /\ [][NextRegistry]_vars

\* ================================================================ claims
\* the block ids of the event index
Indexed(events_) == {row.block_id : row \in events_}

\* the step just taken ingested block b
Ingested(b) == resp'.op = "ingest" /\ resp'.block = b

\* everything the node stores, the event index included
NodeState == <<nodes, users, meta, entries, blobs, events, emitted>>

\* the signature of e was made over e as it stands, with the key that the
\* pipeline must check it under
SignatureGenuine(e) ==
    /\ e.signature.over = Content(e)
    /\ IF e.event_type = "node_registered"
       THEN e.signature.key = e.payload.public_key
       ELSE e.node_id \in DOMAIN nodes /\ e.signature.key = nodes[e.node_id].public_key

\* C1: a block id enters the event index only in an ingestion whose
\* signature verified and whose handler was fully applied; an event whose
\* handler failed or was skipped is not indexed.
C1_IndexCommitsWithHandler ==
    [][\A b \in BlockIds :
          (b \notin Indexed(events) /\ b \in Indexed(events'))
              => (Ingested(b) /\ resp'.log = "applied")]_vars

\* C2: ingesting a block that is already indexed changes nothing: node
\* registry, user registry, metadata, entries and event index stay as they
\* were.
C2_ReingestIsNoOp ==
    [][\A b \in BlockIds :
          (Ingested(b) /\ b \in Indexed(events))
              => UNCHANGED <<nodes, users, meta, entries, events>>]_vars

\* C3: an ingested event whose signature does not verify changes nothing:
\* registries, metadata, entries, blobs, event index and the node's own
\* publications are as before, and the pipeline reports it rejected.
C3_BadSignatureChangesNothing ==
    [][\A b \in BlockIds :
          (Ingested(b) /\ ~SignatureGenuine(fetch_event(emitted, b)))
              => (UNCHANGED NodeState /\ resp'.log = "rejected")]_vars

\* C3 witness: an event of a registered emitter was rejected for its
\* signature.
C3_Witness ==
    /\ resp.op = "ingest"
    /\ resp.log = "rejected"
    /\ fetch_event(emitted, resp.block).node_id \in DOMAIN nodes
    /\ fetch_event(emitted, resp.block).event_type # "node_registered"
    /\ events # {}

\* C4: an event other than node_registered from an emitter that is not in
\* the node registry is dropped (nothing changes, nothing is indexed); a
\* node_registered event signed with the key of its own payload is accepted
\* from an unknown emitter, registered under that key and indexed.
C4_UnknownEmitter ==
    [][\A b \in BlockIds :
          LET e == fetch_event(emitted, b)
          IN  (Ingested(b) /\ e.node_id \notin DOMAIN nodes) =>
                IF e.event_type # "node_registered"
                THEN UNCHANGED NodeState /\ b \notin Indexed(events')
                ELSE Verify(e.payload.public_key, Content(e), e.signature) =>
                        /\ e.node_id \in DOMAIN nodes'
                        /\ nodes'[e.node_id].public_key = e.payload.public_key
                        /\ b \in Indexed(events')]_vars

\* C4 witness: a correctly signed event of the unregistered node N3 was
\* dropped, after the registration of the unknown node N2 was accepted.
C4_Witness ==
    /\ resp.op = "ingest"
    /\ resp.log = "rejected"
    /\ fetch_event(emitted, resp.block).event_type = "file_replicated"
    /\ fetch_event(emitted, resp.block).node_id \notin DOMAIN nodes
    /\ fetch_event(emitted, resp.block).signature.over = Content(fetch_event(emitted, resp.block))
    /\ N2 \in DOMAIN nodes

\* C5: every blob present in the store hashes to the file_id it is stored
\* under, in every reachable state, transfers in progress or failed
\* included, so that a read of a present blob returns the whole ciphertext.
C5_BlobsHashToFileId ==
    /\ \A f \in DOMAIN blobs : Sha256(blobs[f]) = f
    /\ (resp.op = "data" /\ resp.code = 200) => Sha256(resp.body) = resp.file_id

OwnEntries(user_id, file_id) ==
    {i \in DOMAIN meta[file_id].authorized_users :
        meta[file_id].authorized_users[i].user_id = user_id}

\* C7: a download answers 200, with ciphertext and key headers, only if the
\* caller is in the authorized_users of the file it resolved, and the
\* encrypted_key and iv it returns are those of the caller's own entry; a
\* caller whose entry resolves to a file that does not list it gets 403, no
\* key, no ciphertext, and no file_accessed event is published.
C7_DownloadAuthorized ==
    [][resp'.op = "download" =>
        LET u == resp'.user_id
            f == resp'.file_id
        IN  /\ resp'.code = 200 =>
                /\ f \in DOMAIN meta
                /\ \E i \in OwnEntries(u, f) :
                      resp'.crypto = <<meta[f].authorized_users[i].encrypted_key,
                                       meta[f].authorized_users[i].iv>>
            /\ resp'.code # 200 =>
                  resp'.crypto = NoCrypto /\ resp'.body = <<>> /\ xfer' = <<>>
            /\ (f \in DOMAIN meta /\ OwnEntries(u, f) = {})
               => /\ resp'.code = 403
                  /\ UNCHANGED <<emitted, blobs>>]_vars

\* C7 witness: an authorized caller was answered 200 with the key of its own
\* entry, and the file_accessed event of that download is the last one the
\* node published.
C7_Witness ==
    /\ resp.op = "download"
    /\ resp.code = 200
    /\ resp.crypto # NoCrypto
    /\ Len(emitted) > 0
    /\ emitted[Len(emitted)].event_type = "file_accessed"

\* C8: ingesting file_deleted for (user, filename) removes that entry of that
\* user and nothing else: metadata, blobs, the entries of other users and the
\* user's other entries are as before.
C8_DeleteFrame ==
    [][\A b \in BlockIds :
          LET e == fetch_event(emitted, b)
          IN  (Ingested(b) /\ e.event_type = "file_deleted") =>
                /\ UNCHANGED <<meta, blobs, nodes, users>>
                /\ \A u \in DOMAIN entries :
                      /\ u \in DOMAIN entries'
                      /\ \A n \in DOMAIN entries[u] :
                            (u # e.payload.user_id \/ n # e.payload.filename) =>
                                (n \in DOMAIN entries'[u] /\ entries'[u][n] = entries[u][n])
                /\ \A u \in DOMAIN entries' : \A n \in DOMAIN entries'[u] :
                      u \in DOMAIN entries /\ n \in DOMAIN entries[u]
                /\ resp'.log = "applied" =>
                      e.payload.filename \notin DOMAIN entries'[e.payload.user_id]]_vars

\* C8 witness: an entry of U1 was deleted while U2 holds an entry of the
\* same file, whose metadata is still there.
C8_Witness ==
    /\ resp.op = "ingest"
    /\ resp.log = "applied"
    /\ fetch_event(emitted, resp.block).event_type = "file_deleted"
    /\ \E u \in DOMAIN entries : \E n \in DOMAIN entries[u] :
          /\ u # fetch_event(emitted, resp.block).payload.user_id
          /\ entries[u][n] = fetch_event(emitted, resp.block).payload.file_id
          /\ entries[u][n] \in DOMAIN meta

\* "name (N).ext" for the desired name d
Numbered(d, N) == [d EXCEPT !.sfx = Append(d.sfx, N)]

\* n is the name an entry asked for as d gets when the names of taken exist:
\* d itself when free, else "d (N)" for the least N >= 1 that is free
LeastFree(taken, d, n) ==
    IF d \notin taken
    THEN n = d
    ELSE \E N \in 1 .. (Cardinality(taken) + 1) :
            /\ n = Numbered(d, N)
            /\ \A k \in 1 .. (N - 1) : Numbered(d, k) \in taken

C10_OwnerAuthorized ==
    \A f \in DOMAIN meta :
        /\ meta[f].owner \in UserIdsOf(meta[f].authorized_users)
        /\ NoDuplicates(meta[f].authorized_users)

\* C11: when an upload has answered 201 for a file, the node's node_id is
\* in replica_nodes of its metadata document of that file; and a download
\* contacts peers only for a file whose blob is not on the local disk.
C11_SelfInReplicaNodes ==
    /\ (resp.op = "upload" /\ resp.code = 201)
       => /\ resp.file_id \in DOMAIN meta
          /\ SELF \in Range(meta[resp.file_id].replica_nodes)
    /\ (resp.op = "download" /\ xfer # <<>>) => resp.file_id \notin DOMAIN blobs

\* C13: a proxied transfer that ends because the peer's stream failed or the
\* client went away leaves no partial file at the blob path (the path is
\* empty, or holds the whole ciphertext from another transfer) and publishes
\* no file_replicated event.
C13_FailedProxyLeavesNothing ==
    [][resp'.op \in {"stream_failed", "stream_abort"} =>
          /\ resp'.file_id \in DOMAIN blobs' =>
                Sha256(blobs'[resp'.file_id]) = resp'.file_id
          /\ emitted' = emitted]_vars

\* C12: while a blob is proxied, one peer's stream is relayed and written
\* and the request to every other peer has been cancelled: no other peer's
\* response is still open.
C12_LosersCancelled ==
    /\ Len(xfer) <= 1
    /\ xfer # <<>> => xfer[1].open = {}

\* what a metadata document says of ownership, access and replicas
Docs(meta_) ==
    [f \in DOMAIN meta_ |->
        [owner |-> meta_[f].owner,
         authorized_users |-> meta_[f].authorized_users,
         replica_nodes |-> meta_[f].replica_nodes]]

\* C14: replaying the node's event list through the ingestion pipeline of
\* an empty node yields the metadata documents of the node: same files, same
\* owner, authorized_users and replica_nodes.
C14_ReplayYieldsSameMetadata ==
    Docs(sync_node_status(events, emitted, steps + 1).st.meta) = Docs(meta)

\* file_created of F1 by U1 as the peers published it (authorized: U1) ...
CreatedAlone == PeerBlocks[3]

\* ... the file_shared that grants U2 ...
SharedAfter == PeerBlocks[5]

\* ... and a single file_created of the same file whose authorized_users
\* already holds U2, with the same wrapping.
CreatedWith ==
    Envelope("file_created", 2, N2,
             CreatedPayload(U1, F1, A_PDF, 1, <<Au(U1, 1), Au(U2, 1)>>), 2)

\* C15: from any state in which the emitter is registered, ingesting
\* file_created and then file_shared granting U2 leaves the same metadata
\* documents and the same entries of every user as ingesting the single
\* file_created whose authorized_users already contains U2.
C15_CreatedThenSharedEquivalent ==
    N2 \in DOMAIN nodes =>
        LET A1 == process_event(St, events, 3, CreatedAlone, NoAnswer, FALSE, steps + 1)
            A2 == process_event(A1.st, A1.events, 5, SharedAfter, NoAnswer, FALSE, steps + 1)
            B  == process_event(St, events, 3, CreatedWith, NoAnswer, FALSE, steps + 1)
        IN  /\ A2.st.meta = B.st.meta
            /\ A2.st.entries = B.st.entries

\* C16: every record of the node registry has node_id = SHA-256(public_key),
\* and no step changes the public key of a node that is registered.
C16_NodeIdIsKeyHash ==
    [][/\ \A n \in DOMAIN nodes' : n = IdOfKey(nodes'[n].public_key)
       /\ \A n \in DOMAIN nodes :
             n \in DOMAIN nodes' /\ nodes'[n].public_key = nodes[n].public_key]_vars

\* C17: every record of the user registry has user_id = SHA-256(public_key);
\* no step changes the public key of a user that is registered; and a
\* registration request for a known user_id answers 409 and publishes
\* nothing.
C17_UserIdIsKeyHash ==
    [][/\ \A u \in DOMAIN users' : u = IdOfKey(users'[u].public_key)
       /\ \A u \in DOMAIN users :
             u \in DOMAIN users' /\ users'[u].public_key = users[u].public_key
       /\ (resp'.op = "register" /\ resp'.user_id \in DOMAIN users)
             => (resp'.code = 409 /\ emitted' = emitted)]_vars

\* C18: a share request whose caller has the file but is not its owner
\* is answered 403, publishes no event and leaves every metadata document
\* as it was.
C18_ShareByNonOwnerRejected ==
    [][(/\ resp'.op = "share"
        /\ resp'.filename \in DOMAIN get_user_dir(St, resp'.user_id)
        /\ meta[get_user_dir(St, resp'.user_id)[resp'.filename]].owner # resp'.user_id)
       => (resp'.code = 403 /\ emitted' = emitted /\ meta' = meta)]_vars

\* U2, with whom U1 shared a.pdf, asked to share it on and got 403
C18_Witness ==
    /\ resp.op = "share"
    /\ resp.code = 403
    /\ resp.user_id = U2
    /\ A_PDF \in DOMAIN get_user_dir(St, U2)

\* the entries the challenge cache holds under user_id u
ChallengesOf(A, u) ==
    {i \in 1 .. Len(A.challenge_cache) : A.challenge_cache[i].key = u}

\* C19: the challenge cache never holds two challenges of one user; a
\* challenge just generated is the one a lookup returns and differs from the
\* one it replaced; verify gets past the signature check only with a
\* signature over the challenge a lookup returns; and a lookup made
\* CHALLENGE_TTL or more after a challenge was stored returns none.
C19_OneChallengePerUser ==
    [][/\ \A u \in UserIds : Cardinality(ChallengesOf(auth', u)) <= 1
       /\ \A i \in 1 .. Len(auth'.challenge_cache) :
             auth'.now >= auth'.challenge_cache[i].at + CHALLENGE_TTL
                => get_challenge(auth', auth'.challenge_cache[i].key) = NoValue
       /\ (steps' # steps /\ resp'.op = "challenge" /\ resp'.code = 200)
             => /\ get_challenge(auth', resp'.user_id) = resp'.challenge
                /\ resp'.challenge # get_challenge(auth, resp'.user_id)
       /\ (steps' # steps /\ resp'.op = "verify" /\ resp'.code \in {200, 500})
             => resp'.signature.over = get_challenge(auth, resp'.user_id)]_vars

\* a challenge was generated for a user who had one outstanding
C19_Witness ==
    /\ resp.op = "challenge"
    /\ resp.code = 200
    /\ resp.replaced # NoValue
    /\ get_challenge(auth, resp.user_id) = resp.challenge

\* the users the session cache stores under token t
SessionsOf(A, t) ==
    {A.session_tokens[i].value :
        i \in {j \in 1 .. Len(A.session_tokens) : A.session_tokens[j].key = t}}

\* C20: verify answers 400 without a live challenge of user_id, else 404
\* for an unknown user, else 403 for a signature that is not the registered
\* key's over that challenge; a token is stored only by a verify that passed
\* the three checks, and under that user_id; a stored token never changes
\* user; and require_auth returns the user_id the token was stored under.
C20_VerifyMintsForUser ==
    [][/\ (steps' # steps /\ resp'.op = "verify")
             => LET u == resp'.user_id
                    c == get_challenge(auth, u)
                IN  /\ resp'.code \in {400, 404, 403, 200, 500}
                    /\ resp'.code = 400 <=> c = NoValue
                    /\ resp'.code = 404 <=> (c # NoValue /\ u \notin DOMAIN users)
                    /\ resp'.code = 403 <=>
                          /\ c # NoValue
                          /\ u \in DOMAIN users
                          /\ ~Verify(users[u].public_key, c, resp'.signature)
                    /\ resp'.code = 200 => resp'.access_token # NoValue
                    /\ resp'.access_token # NoValue
                          => /\ resp'.code \in {200, 500}
                             /\ SessionsOf(auth, resp'.access_token) = {}
                             /\ SessionsOf(auth', resp'.access_token) = {u}
       /\ auth'.session_tokens # auth.session_tokens
             => (steps' # steps /\ resp'.op = "verify" /\ resp'.access_token # NoValue)
       /\ \A t \in 1 .. auth.drawn : SessionsOf(auth', t) \subseteq SessionsOf(auth, t)
                                        \/ SessionsOf(auth, t) = {}
       /\ (steps' # steps /\ resp'.op = "auth" /\ resp'.code = 200)
             => SessionsOf(auth, resp'.token) = {resp'.user_id}]_vars

\* a token minted for U1 authenticated a later request as U1
C20_Witness ==
    /\ resp.op = "auth"
    /\ resp.code = 200
    /\ resp.user_id = U1
    /\ SessionsOf(auth, resp.token) = {U1}

\* C24: a request that publishes an event answers 200 or 201 only when its
\* event was taken by the ledger and its block id was announced on the bus.
C24_SuccessMeansPublishedAndAnnounced ==
    [][(/\ steps' # steps
        /\ resp'.op \in {"register", "verify", "upload", "share", "download"}
        /\ resp'.code \in {200, 201})
       => /\ Len(emitted') = Len(emitted) + 1
          /\ Len(PeerLedger) + Len(emitted') \in announced']_vars

\* the tokens that authenticate a request as user u
TokensOf(A, u) ==
    {t \in 1 .. A.drawn :
        require_auth(A, [scheme |-> "Bearer", token |-> t]) = [code |-> 200, user_id |-> u]}

\* C21: when every token in the session cache comes from a verify that
\* answered 200, at most one token authenticates as any one user (the token
\* of the previous login stopped authenticating when the next was issued);
\* and no token authenticates SESSION_TTL or more after it was stored.
C21_TokensRotated ==
    /\ Len(auth.session_tokens) = Len(emitted)
          => \A u \in UserIds : Cardinality(TokensOf(auth, u)) <= 1
    /\ \A i \in 1 .. Len(auth.session_tokens) :
          auth.now >= auth.session_tokens[i].at + SESSION_TTL
             => require_auth(auth, [scheme |-> "Bearer",
                                    token |-> auth.session_tokens[i].key]).code = 401

\* C22: a download that follows an upload answered 201, by the same user
\* under the uploaded filename, answers 200 with the uploaded ciphertext as
\* body, its SHA-256 as file id and the key material the uploader sent for
\* itself.
C22_UploadThenDownload ==
    [][(/\ resp.op = "upload"
        /\ resp.code = 201
        /\ steps' # steps
        /\ resp'.op = "download"
        /\ resp'.user_id = resp.user_id
        /\ resp'.filename = resp.metadata.filename)
       => /\ resp'.code = 200
          /\ resp'.body = resp.contents
          /\ resp'.file_id = Sha256(resp.contents)
          /\ LET au == resp.metadata.authorized_users
                 i == FirstIndex(au, resp.user_id, 1)
             IN  i # 0 /\ resp'.crypto = <<au[i].encrypted_key, au[i].iv>>]_vars

C25_MissingEntryIs404 ==
    [][(/\ steps' # steps
        /\ resp'.op \in {"download", "rename", "delete"}
        /\ resp'.filename \notin DOMAIN get_user_dir(St, resp'.user_id))
       => (resp'.code = 404 /\ emitted' = emitted)]_vars

\* the key of the emitter of envelope e, as verify_signature finds it
EmitterKey(e) ==
    IF e.event_type = "node_registered" THEN e.payload.public_key
    ELSE get_public_key_node(nodes, e.node_id)

IsHexId(text) == Len(text) = HEX_LEN /\ \A i \in 1 .. HEX_LEN : text[i] \in HexDigits

\* C27: an announcement is accepted exactly when it has the four fields, a
\* valid event_type, a block_id that is 0x followed by an identifier and a
\* node_id that is an identifier; for a rejected announcement nothing is
\* fetched and the node's state does not change.
C27_AnnouncementValidation ==
    [][(steps' # steps /\ resp'.op = "announce")
          => LET d == resp'.data
             IN  /\ resp'.accepted <=>
                       /\ {"block_id", "event_type", "timestamp", "node_id"} \subseteq d.fields
                       /\ d.event_type \in VALID_EVENT_TYPES
                       /\ Len(d.block_id) = HEX_LEN + 2
                       /\ SubSeq(d.block_id, 1, 2) = <<"0", "x">>
                       /\ IsHexId(SubSeq(d.block_id, 3, HEX_LEN + 2))
                       /\ IsHexId(d.node_id)
                 /\ ~resp'.accepted
                       => /\ ~resp'.fetched
                          /\ UNCHANGED <<nodes, users, meta, entries, blobs, events,
                                         emitted>>]_vars

\* C28: the event index holds one row per block_id, and a further ingestion
\* of a block that is indexed (a redelivered announcement, or seeding beside
\* the live announcement) applies nothing more: index, registries, metadata
\* and entries come out as they went in.
C28_DuplicateAppliedOnce ==
    /\ \A r1, r2 \in events : r1.block_id = r2.block_id => r1 = r2
    /\ \A b \in Indexed(events) :
          LET T == process_event(St, events, b, fetch_event(emitted, b), NoAnswer, FALSE,
                                 steps + 1)
          IN  /\ T.events = events
              /\ T.st.nodes = nodes
              /\ T.st.users = users
              /\ T.st.meta = meta
              /\ T.st.entries = entries

\* C29: no step takes a metadata document away, changes its owner, or
\* removes a node from its replica_nodes or a user from its
\* authorized_users.
C29_MetadataOnlyGrows ==
    [][\A f \in DOMAIN meta :
          /\ f \in DOMAIN meta'
          /\ meta'[f].owner = meta[f].owner
          /\ Range(meta[f].replica_nodes) \subseteq Range(meta'[f].replica_nodes)
          /\ UserIdsOf(meta[f].authorized_users)
                \subseteq UserIdsOf(meta'[f].authorized_users)]_vars

\* the entries of user u in the entry store entries_
DirOf(entries_, u) == IF u \in DOMAIN entries_ THEN entries_[u] ELSE <<>>

\* the key material the list users_ gives last for user u
LastListedCrypto(users_, u) ==
    LET idx == {i \in 1 .. Len(users_) : users_[i].user_id = u}
        m == CHOOSE i \in idx : \A j \in idx : j <= i
    IN  <<users_[m].encrypted_key, users_[m].iv>>

\* C30: when a file_shared event is ingested for a file that has a metadata
\* document, a user who was already in its authorized_users keeps exactly
\* the entries it had, a user the event newly authorizes gains one entry of
\* the file, and every listed user ends with the key material the event
\* lists last for it.
C30_ShareLinksNewUsersOnly ==
    [][\A b \in BlockIds :
          LET e == fetch_event(emitted, b)
              f == e.payload.file_id
          IN  (/\ Ingested(b)
               /\ e.event_type = "file_shared"
               /\ resp'.log = "applied"
               /\ f \in DOMAIN meta)
              => \A u \in UserIds :
                    /\ u \in UserIdsOf(meta[f].authorized_users)
                          => DirOf(entries', u) = DirOf(entries, u)
                    /\ (/\ u \notin UserIdsOf(meta[f].authorized_users)
                        /\ u \in UserIdsOf(e.payload.authorized_users))
                          => /\ Cardinality(DOMAIN DirOf(entries', u)) =
                                   Cardinality(DOMAIN DirOf(entries, u)) + 1
                             /\ \E n \in DOMAIN DirOf(entries', u) :
                                   DirOf(entries', u)[n] = f
                    /\ u \in UserIdsOf(e.payload.authorized_users)
                          => get_user_crypto(meta', u, f) =
                                LastListedCrypto(e.payload.authorized_users, u)]_vars

\* the blob of f is completely stored: it exists and hashes to f
Complete(blobs_, f) == f \in DOMAIN blobs_ /\ Sha256(blobs_[f]) = f

\* C31: the blob of a file_id is write-once: no step of an upload, a clone
\* or a proxy-while-store removes, truncates or changes a blob that is
\* completely stored.
C31_BlobWriteOnce ==
    [][\A f \in FileIds :
          Complete(blobs, f) => (f \in DOMAIN blobs' /\ blobs'[f] = blobs[f])]_vars

\* C36: an ingested file_renamed or file_deleted with payload (user_id,
\* file_id, filename) changes an entry only if the entry filename of user_id
\* maps to file_id: when that entry is missing or maps to another file, no
\* entry of any user is renamed or removed.
C36_RenameDeleteMatchFileId ==
    [][\A b \in BlockIds :
          LET e == fetch_event(emitted, b)
              p == e.payload
          IN  (/\ Ingested(b)
               /\ e.event_type \in {"file_renamed", "file_deleted"}
               /\ resp'.log \in {"applied", "failed"}
               /\ \/ p.filename \notin DOMAIN DirOf(entries, p.user_id)
                  \/ DirOf(entries, p.user_id)[p.filename] # p.file_id)
              => entries' = entries]_vars

\* the header that presents token t
Bearer(t) == [scheme |-> "Bearer", token |-> t]

\* C37: a verify request that answers with an error leaves the session-token
\* store as it was: every token that passes require_auth after it passed
\* require_auth before it.
C37_FailedVerifyMintsNothing ==
    [][(resp'.op = "verify" /\ steps' # steps /\ resp'.code # 200)
          => /\ auth'.session_tokens = auth.session_tokens
             /\ \A t \in 1 .. auth'.drawn :
                   require_auth(auth', Bearer(t)).code = 200
                      => require_auth(auth, Bearer(t)).code = 200]_vars

\* C38: a challenge is single-use: when a verify has succeeded for a user
\* and the next request presents the same user_id and signature again, with
\* no new challenge requested in between, it does not succeed.
C38_ChallengeSingleUse ==
    [][(/\ resp.op = "verify"
        /\ resp.code = 200
        /\ resp'.op = "verify"
        /\ steps' # steps
        /\ resp'.user_id = resp.user_id
        /\ resp'.signature = resp.signature)
          => resp'.code # 200]_vars

\* The node after its listener has ingested the registrations of N2, U1
\* and U2 (AuthBlocks), in the order of the ledger.
Registered ==
    seed_loop([st |-> EmptyNode, events |-> {}],
              <<[block_id |-> 1], [block_id |-> 2], [block_id |-> SelfBlock + 2]>>,
              <<>>, 0)

InitSessions ==
    /\ nodes = Registered.st.nodes
    /\ users = Registered.st.users
    /\ meta = Registered.st.meta
    /\ entries = Registered.st.entries
    /\ blobs = Registered.st.blobs
    /\ events = Registered.events
    /\ emitted = <<>>
    /\ announced = AuthBlocks
    /\ xfer = <<>>
    /\ resp = [op |-> "none"]
    /\ steps = 0
    /\ auth = [challenge_cache |-> <<>>, session_tokens |-> <<>>, now |-> 0, drawn |-> 0]
    /\ file_id_cache = <<>>
    /\ listener = [at |-> "idle"]
    /\ caches = [node |-> <<>>, metadata |-> <<>>]

\* logins of two registered users
NextSessions ==
    \/ \E u \in UserIds : ApiChallenge(u)
    \/ \E req \in VerifyRequests : ApiVerify(req)
    \/ \E a \in Authorizations : ApiAuthenticated(a)
    \/ Tick

SpecSessions == InitSessions /\ [][NextSessions]_vars

\* C39: while time stands still, a request of another user (a challenge
\* request or a verify) evicts neither the challenge of a user nor a session
\* token: the challenge stays retrievable and the token keeps passing
\* require_auth.
C39_OthersNeverEvict ==
    [][(resp'.op \in {"challenge", "verify"} /\ steps' # steps /\ auth'.now = auth.now)
          => /\ \A t \in 1 .. auth.drawn :
                   (/\ require_auth(auth, Bearer(t)).code = 200
                    /\ require_auth(auth, Bearer(t)).user_id # resp'.user_id)
                      => require_auth(auth', Bearer(t)) = require_auth(auth, Bearer(t))
             /\ \A u \in UserIds :
                   (get_challenge(auth, u) # NoValue /\ u # resp'.user_id)
                      => get_challenge(auth', u) = get_challenge(auth, u)]_vars

\* C35: whenever this node emits file_replicated for a file_id, its local
\* blob of that file_id exists, is complete and hashes to the file_id.
C35_ReplicatedMeansHeld ==
    [][\A i \in (Len(emitted) + 1) .. Len(emitted') :
          emitted'[i].event_type = "file_replicated"
             => Complete(blobs', emitted'[i].payload.file_id)]_vars

\* the registrations, a file and the file_created with the long name
AbortBlocks == {1, 2, 3, 5, Len(PeerLedger)}

InitAbort == InitNode /\ announced = AbortBlocks

\* ingestion of a ledger that holds an event the handler cannot apply
NextAbort == \E b \in BlockIds : OnMessage(b)

SpecAbort == InitAbort /\ [][NextAbort]_vars

\* C34: no ingested event ends the ingestion of the node: whatever fails
\* while an event is fetched, verified or applied, the bus thread returns to
\* its loop and takes the next announcement.
C34_IngestionSurvivesFailures ==
    [][\A b \in BlockIds : Ingested(b) => listener'.at = "idle"]_vars

\* ----------------------------------------- the caches and the bus thread
\* The handlers run on the bus thread, one event at a time; the API runs on
\* another thread and looks nodes and documents up through the same caches.
\* Here a handler's write is taken apart into the steps the source performs
\* it in, with the lookups of the API between them.

\* what nodes.get returns, and @cached keeps, for a node_id without a row
NoRow == [missing |-> TRUE]

\* a document that is not there (FileNotFoundError, not cached)
NoDocument == [missing |-> TRUE, raised |-> "FileNotFoundError"]

\* a document after meta_path.open("w") and before json.dump has written it
Truncated == [truncated |-> TRUE]

\* cache.pop(id, None)
invalidate(cache, id) == [k \in DOMAIN cache \ {id} |-> cache[k]]

\* cache[id] = v
cache_put(cache, id, v) ==
    [k \in DOMAIN cache \cup {id} |-> IF k = id THEN v ELSE cache[k]]

\* the row of node_id in the table nodes
select_node(nodes_, node_id) ==
    IF node_id \in DOMAIN nodes_ THEN nodes_[node_id] ELSE NoRow

\* core/nodes.py get under @cached(_node_cache)
nodes_get(C, nodes_, node_id) ==
    IF node_id \in DOMAIN C.node
    THEN [value |-> C.node[node_id], caches |-> C]
    ELSE [value |-> select_node(nodes_, node_id),
          caches |-> [C EXCEPT !.node = cache_put(@, node_id,
                                                  select_node(nodes_, node_id))]]

\* what json.load reads at the path of file_id
read_document(meta_, file_id) ==
    IF file_id \in DOMAIN meta_ THEN meta_[file_id] ELSE NoDocument

\* core/files.py get_metadata_by_id under @cached(_metadata_cache): a call
\* that raises (no file, or a file json.load cannot parse) caches nothing
get_metadata_by_id(C, meta_, file_id) ==
    IF file_id \in DOMAIN C.metadata
    THEN [value |-> C.metadata[file_id], caches |-> C]
    ELSE IF read_document(meta_, file_id) \in {NoDocument, Truncated}
    THEN [value |-> read_document(meta_, file_id), caches |-> C]
    ELSE [value |-> meta_[file_id],
          caches |-> [C EXCEPT !.metadata = cache_put(@, file_id, meta_[file_id])]]

\* whether the handler of e, in state S, reaches save_metadata
saves_metadata(S, e) ==
    \/ /\ e.event_type = "file_shared"
       /\ share(S, e).log = "applied"
    \/ /\ e.event_type = "file_replicated"
       /\ e.payload.file_id \in DOMAIN S.meta
       /\ e.node_id \notin Range(S.meta[e.payload.file_id].replica_nodes)

\* whether the bus thread, handling e in state S, performs a write that
\* follows its invalidation: update of core/nodes.py (invalidate_node_cache,
\* then UPDATE and commit) or save_metadata (invalidate_metadata_cache, then
\* open("w"), then json.dump)
invalidates_then_writes(S, e) ==
    /\ verify_signature(e, S.nodes)
    /\ event_model_ok(e)
    /\ e.event_type = "node_status" \/ saves_metadata(S, e)

\* The caches after the bus thread took e in state S as far as its last
\* invalidation: verify_signature looks the emitter up (get_public_key ->
\* get), save and update invalidate the node, create and save_metadata
\* invalidate the document, share and replicate read it first.
listener_caches(C, S, e) ==
    LET C1 == IF e.event_type = "node_registered" THEN C
              ELSE nodes_get(C, S.nodes, e.node_id).caches
    IN  IF ~(verify_signature(e, S.nodes) /\ event_model_ok(e)) THEN C1
        ELSE IF e.event_type \in {"node_registered", "node_status"}
        THEN [C1 EXCEPT !.node = invalidate(@, e.node_id)]
        ELSE IF e.event_type = "file_created" \/ saves_metadata(S, e)
        THEN [C1 EXCEPT !.metadata = invalidate(@, e.payload.file_id)]
        ELSE IF e.event_type \in {"file_shared", "file_replicated"}
        THEN get_metadata_by_id(C1, S.meta, e.payload.file_id).caches
        ELSE C1

\* on_message for an event whose handler writes nothing after an
\* invalidation, or nothing at all; the peers do not answer a clone
ListenerIngests(b) ==
    /\ steps < MaxSteps
    /\ listener.at = "idle"
    /\ b \in announced
    /\ LET e == fetch_event(emitted, b)
           T == process_event(St, events, b, e, NoAnswer, FALSE, steps + 1)
       IN  /\ ~invalidates_then_writes(St, e)
           /\ Install(T.st)
           /\ events' = T.events
           /\ listener' = after_callback(listener, T.st.log)
           /\ caches' = listener_caches(caches, St, e)
           /\ resp' = [op |-> "ingest", block |-> b, log |-> T.st.log,
                       answer |-> NoAnswer]
    /\ steps' = steps + 1
    /\ UNCHANGED <<xfer, auth, file_id_cache>>

\* on_message as far as the invalidation that precedes the handler's write:
\* share has linked its entries by then
ListenerInvalidates(b) ==
    /\ steps < MaxSteps
    /\ listener.at = "idle"
    /\ b \in announced
    /\ LET e == fetch_event(emitted, b)
           T == process_event(St, events, b, e, NoAnswer, FALSE, steps + 1)
       IN  /\ invalidates_then_writes(St, e)
           /\ entries' = T.st.entries
           /\ caches' = listener_caches(caches, St, e)
           /\ listener' = [at |-> "invalidated", block |-> b, st |-> T.st,
                           events |-> T.events,
                           target |-> IF e.event_type = "node_status"
                                      THEN "node" ELSE "metadata"]
           /\ resp' = [op |-> "ingest_begins", block |-> b]
    /\ steps' = steps + 1
    /\ UNCHANGED <<nodes, users, meta, blobs, events, emitted, announced, xfer, auth,
                   file_id_cache>>

\* save_metadata: meta_path.open("w") empties the document
ListenerOpens ==
    /\ listener.at = "invalidated"
    /\ listener.target = "metadata"
    /\ meta' = [meta EXCEPT ![fetch_event(emitted, listener.block).payload.file_id] =
                   Truncated]
    /\ listener' = [listener EXCEPT !.at = "opened"]
    /\ UNCHANGED <<nodes, users, entries, blobs, events, emitted, announced, xfer, resp,
                   steps, auth, file_id_cache, caches>>

\* the write itself (commit of the UPDATE, or json.dump and close), the
\* return of the handler and save_event
ListenerCompletes ==
    /\ \/ listener.at = "invalidated" /\ listener.target = "node"
       \/ listener.at = "opened"
    /\ Install(listener.st)
    /\ events' = listener.events
    /\ listener' = [at |-> "idle"]
    /\ resp' = [op |-> "ingest", block |-> listener.block, log |-> listener.st.log,
                answer |-> NoAnswer]
    /\ UNCHANGED <<xfer, steps, auth, file_id_cache, caches>>

\* a request on the API thread that resolves node_id (get_file_url_for_node)
ApiNodeLookup(node_id) ==
    /\ LET T == nodes_get(caches, nodes, node_id)
       IN  /\ caches' = T.caches
           /\ resp' = [op |-> "node_lookup", id |-> node_id, value |-> T.value,
                       stored |-> select_node(nodes, node_id), at |-> listener.at]
    /\ UNCHANGED <<nodes, users, meta, entries, blobs, events, emitted, announced, xfer,
                   steps, auth, file_id_cache, listener>>

\* a request on the API thread that reads the document of file_id
\* (get_user_crypto, user_has_access)
ApiMetadataLookup(file_id) ==
    /\ LET T == get_metadata_by_id(caches, meta, file_id)
       IN  /\ caches' = T.caches
           /\ resp' = [op |-> "metadata_lookup", id |-> file_id, value |-> T.value,
                       stored |-> read_document(meta, file_id), at |-> listener.at]
    /\ UNCHANGED <<nodes, users, meta, entries, blobs, events, emitted, announced, xfer,
                   steps, auth, file_id_cache, listener>>

\* N2, N3, file F1, its share, its replication by N3, a node_status of N2
CacheBlocks == {1, 3, 5, 9, 10, 12}

InitCache == InitNode /\ announced = CacheBlocks

NextCache ==
    \/ \E b \in BlockIds : ListenerIngests(b)
    \/ \E b \in BlockIds : ListenerInvalidates(b)
    \/ ListenerOpens
    \/ ListenerCompletes
    \/ \E n \in {N2, N3} : ApiNodeLookup(n)
    \/ \E f \in {F1} : ApiMetadataLookup(f)

SpecCache == InitCache /\ [][NextCache]_vars

\* C33: once the mutations of an id have completed (the bus thread is
\* idle), a lookup of that id returns the stored value, whatever lookups
\* ran while the mutation was in progress.
C33_LookupsSeeCompletedMutations ==
    (resp.op \in {"node_lookup", "metadata_lookup"} /\ resp.at = "idle")
       => resp.value = resp.stored

\* C32: the writers of a metadata document serialize: a handler about to
\* write has merged into the document that is stored (nothing of it is
\* lost), and no reader observes a truncated or partially written document.
C32_MetadataWritesSerializedAndAtomic ==
    /\ (listener.at = "invalidated" /\ listener.target = "metadata")
          => LET f == fetch_event(emitted, listener.block).payload.file_id
             IN  /\ Range(meta[f].replica_nodes)
                       \subseteq Range(listener.st.meta[f].replica_nodes)
                 /\ UserIdsOf(meta[f].authorized_users)
                       \subseteq UserIdsOf(listener.st.meta[f].authorized_users)
    /\ resp.op = "metadata_lookup" => resp.value # Truncated

\* ------------------------------------------------------ a node just created
\* core/events.py send_node_status_event: what the loop of main publishes
\* every UPDATE_STATUS_INTERVAL
send_node_status_event(S, pub, ts) ==
    publish_event(S, build_event("node_status", [addr |-> 1], ts), pub)

MainLoopStatus ==
    /\ steps < MaxSteps
    /\ \E pub \in PubOutcomes :
          /\ Install(send_node_status_event(St, pub, steps + 1))
          /\ resp' = [op |-> "status", emitted |-> pub]
    /\ steps' = steps + 1
    /\ UNCHANGED <<events, xfer, auth, file_id_cache, listener, caches>>

\* What the bus holds for a node that main has just created: the
\* announcements of the peers, and what publishing its own node_registered
\* (block SelfBlock) announced, kept for it by the persistent session of
\* register_client.
FreshBlocks == {1, 2, 3} \cup publish_event_to_mqtt(SelfBlock, SelfRegistered)

InitFresh == InitNode /\ announced = FreshBlocks

NextFresh ==
    \/ \E b \in BlockIds : OnMessage(b)
    \/ \E u \in {U1}, c \in UploadContents, m \in UploadMetas : ApiUpload(u, c, m)
    \/ MainLoopStatus

SpecFresh == InitFresh /\ [][NextFresh]_vars

\* C40: a node just created ingests its own node_registered before any
\* other event it emitted: an event of its own that it ingests finds its
\* registration in the index and is not rejected, and once the node has
\* ingested everything the bus held for it, its own record is in its
\* registry.
C40_OwnRegistrationIngestedFirst ==
    /\ \A b \in (Len(PeerLedger) + 1) .. (Len(PeerLedger) + MaxLocal) :
          (resp.op = "ingest" /\ resp.block = b)
             => (SelfBlock \in Indexed(events) /\ resp.log # "rejected")
    /\ announced \subseteq Indexed(events)
          => (SelfBlock \in Indexed(events) /\ SELF \in DOMAIN nodes)

====
